---- MODULE Spec2Model ----
(***************************************************************************)
(* Model of the summary and HRV derivation code of garmin-fit-visualizer.  *)
(* The repository holds two implementations of the parser: the JavaScript  *)
(* one (src/src/parser/fitParser.js lines 1-384) and the TypeScript one    *)
(* (same file, lines 386-699, with the helpers of utils/formatters).  Both *)
(* are modelled; definitions ending in JS / TS follow the respective code. *)
(***************************************************************************)
EXTENDS Integers, Sequences, FiniteSets, TLC

VARIABLES messages, jsData, tsData, state, storage, view, calls, uploads

(* messages, jsData, tsData: a decoded bundle and what each parser returns  *)
(* for it.  state, storage, view, calls, uploads: the store of the          *)
(* TypeScript application, the localStorage item it persists, what the      *)
(* components show, the last dispatch call, and the handleFile invocations. *)
parserVars == <<messages, jsData, tsData>>
appVars == <<state, storage, view, calls, uploads>>
vars == <<messages, jsData, tsData, state, storage, view, calls, uploads>>

----------------------------------------------------------------------------
(* JavaScript values.  A number is an exact rational n/d in lowest terms   *)
(* (d > 0); the square root of a rational that is not a perfect square is  *)
(* kept symbolically as [t |-> "sqrt"] of its radicand.                    *)

Undefined == [t |-> "undefined"]
Null == [t |-> "null"]
NaN == [t |-> "NaN"]
Infinity == [t |-> "Infinity"]
Arr(s) == [t |-> "array", a |-> s]

Abs(i) == IF i < 0 THEN -i ELSE i

RECURSIVE GCD(_, _)
GCD(a, b) == IF b = 0 THEN a ELSE GCD(b, a % b)

Num(n, d) ==
    LET g == GCD(Abs(n), d)
    IN  [t |-> "number", n |-> n \div g, d |-> d \div g]

Int2Num(i) == [t |-> "number", n |-> i, d |-> 1]

IsNumber(v) == v.t = "number"
IsNullish(v) == v.t \in {"undefined", "null"}
IsArray(v) == v.t = "array"

Add(x, y) ==
    LET g == GCD(x.d, y.d)
    IN  Num(x.n * (y.d \div g) + y.n * (x.d \div g), (x.d \div g) * y.d)
Sub(x, y) == Add(x, [y EXCEPT !.n = -y.n])
Mul(x, y) == Num(x.n * y.n, x.d * y.d)
DivInt(x, k) == Num(x.n, x.d * k)
Less(x, y) == x.n * y.d < y.n * x.d
AbsNum(x) == [x EXCEPT !.n = Abs(x.n)]

(* a > b and a < b of JavaScript on the values above: null converts to 0,   *)
(* undefined and NaN make every comparison false.                           *)
ToNumber(v) == IF v.t = "null" THEN Int2Num(0)
               ELSE IF v.t = "undefined" THEN NaN ELSE v

JsLess(a, b) ==
    LET x == ToNumber(a)
        y == ToNumber(b)
    IN  IF x.t = "NaN" \/ y.t = "NaN" THEN FALSE
        ELSE IF x.t = "Infinity" THEN FALSE
        ELSE IF y.t = "Infinity" THEN TRUE
        ELSE Less(x, y)

JsGreater(a, b) == JsLess(b, a)

(* Truthiness, a || b and a ?? b.                                           *)
Truthy(v) == \/ v.t \in {"Infinity", "array", "object", "sqrt"}
             \/ (v.t = "number" /\ v.n # 0)

Or(a, b) == IF Truthy(a) THEN a ELSE b
Coalesce(a, b) == IF IsNullish(a) THEN b ELSE a

(* obj.field: a property that is not there reads as undefined.              *)
Field(msg, f) == IF f \in DOMAIN msg THEN msg[f] ELSE Undefined

(* Math.round: nearest integer, halves towards +Infinity.                   *)
Round(x) == Int2Num((2 * x.n + x.d) \div (2 * x.d))

RECURSIVE ISqrtIn(_, _, _)
ISqrtIn(k, lo, hi) ==
    IF lo >= hi THEN lo
    ELSE LET mid == (lo + hi + 1) \div 2
         IN  IF mid * mid <= k THEN ISqrtIn(k, mid, hi)
             ELSE ISqrtIn(k, lo, mid - 1)

(* floor(sqrt(k)); 46340 is the largest root of a 32-bit integer.            *)
ISqrt(k) == ISqrtIn(k, 0, IF k < 46340 THEN k ELSE 46340)

(* Math.sqrt of a non-negative rational.                                    *)
Sqrt(x) ==
    LET rn == ISqrt(x.n)
        rd == ISqrt(x.d)
    IN  IF rn * rn = x.n /\ rd * rd = x.d THEN Num(rn, rd)
        ELSE [t |-> "sqrt", n |-> x.n, d |-> x.d]

(* Math.round(Math.sqrt(x)) = floor((floor(sqrt(4x)) + 1) / 2).             *)
RoundSqrt(x) == Int2Num((ISqrt((4 * x.n) \div x.d) + 1) \div 2)

RECURSIVE SumSeq(_)
SumSeq(s) == IF s = <<>> THEN Int2Num(0) ELSE Add(Head(s), SumSeq(Tail(s)))

(* Math.max(...arr) and Math.min(...arr) on numbers: the empty list gives   *)
(* -Infinity and Infinity.                                                  *)
RECURSIVE MathMax(_)
MathMax(s) ==
    IF s = <<>> THEN [t |-> "-Infinity"]
    ELSE LET r == MathMax(Tail(s))
         IN  IF r.t = "-Infinity" \/ Less(r, Head(s)) THEN Head(s) ELSE r

RECURSIVE MathMin(_)
MathMin(s) ==
    IF s = <<>> THEN Infinity
    ELSE LET r == MathMin(Tail(s))
         IN  IF r.t = "Infinity" \/ Less(Head(s), r) THEN Head(s) ELSE r

----------------------------------------------------------------------------
(* Array helpers of the two implementations.                                *)

(* fitParser.js average(): null for an empty list.                          *)
averageJS(arr) == IF Len(arr) = 0 THEN Null ELSE DivInt(SumSeq(arr), Len(arr))

(* utils/formatters average(), max(), min(): 0 for an empty list.           *)
averageTS(arr) == IF Len(arr) = 0 THEN Int2Num(0) ELSE DivInt(SumSeq(arr), Len(arr))
maxTS(arr) == IF Len(arr) = 0 THEN Int2Num(0) ELSE MathMax(arr)
minTS(arr) == IF Len(arr) = 0 THEN Int2Num(0) ELSE MathMin(arr)

NotNullish(v) == ~IsNullish(v)
Positive(v) == JsGreater(v, Int2Num(0))

----------------------------------------------------------------------------
(* HRV, JavaScript implementation.                                          *)

(* The upper limit 65.535 (seconds) and the factor 1000 of line 232-233.    *)
RRLimitSeconds == Num(65535, 1000)
MsPerSecond == Int2Num(1000)
NN50Threshold == Int2Num(50)

AcceptRRJS(val) ==
    /\ val.t # "null"
    /\ val.t # "undefined"
    /\ JsGreater(val, Int2Num(0))
    /\ JsLess(val, RRLimitSeconds)

ScaleRRJS(val) == Mul(val, MsPerSecond)

(* The forEach of one message's time array.                                 *)
MsgIntervalsJS(msg) ==
    LET time == Field(msg, "time")
    IN  IF Truthy(time) /\ IsArray(time)
        THEN LET accepted == SelectSeq(time.a, AcceptRRJS)
             IN  [i \in 1..Len(accepted) |-> ScaleRRJS(accepted[i])]
        ELSE <<>>

(* Faulty variant: each message's intervals put in front of the earlier     *)
(* ones.                                                                    *)
RECURSIVE ExtractRRIntervalsPrepending(_)
ExtractRRIntervalsPrepending(hrvMessages) ==
    IF hrvMessages = <<>> THEN <<>>
    ELSE ExtractRRIntervalsPrepending(Tail(hrvMessages))
         \o MsgIntervalsJS(Head(hrvMessages))

RECURSIVE ExtractRRIntervalsJS(_)
ExtractRRIntervalsJS(hrvMessages) ==
    IF hrvMessages = <<>> THEN <<>>
    ELSE MsgIntervalsJS(Head(hrvMessages)) \o ExtractRRIntervalsJS(Tail(hrvMessages))

SuccessiveDiffs(rr) == [i \in 1..(Len(rr) - 1) |-> AbsNum(Sub(rr[i + 1], rr[i]))]

Square(x) == Mul(x, x)

(* Faulty variant: a difference of exactly 50 counted.                      *)
ReachesNN50(diff) == ~Less(diff, NN50Threshold)

ExceedsNN50(diff) == Less(NN50Threshold, diff)

Pnn50JS(successiveDiffs) ==
    Mul(Num(Len(SelectSeq(successiveDiffs, ExceedsNN50)), Len(successiveDiffs)),
        Int2Num(100))

(* minNN and maxNN are taken over the raw intervals (lines 280-281).        *)
(* Faulty variant: the minimum of the difference series.                    *)
MinOfDiffs(rrIntervalsMs) == MathMin(SuccessiveDiffs(rrIntervalsMs))

MinNNJS(rrIntervalsMs) == MathMin(rrIntervalsMs)
MaxNNJS(rrIntervalsMs) == MathMax(rrIntervalsMs)

MetricsJS(rrIntervalsMs) ==
    LET meanNN == averageJS(rrIntervalsMs)
        squaredDiffsFromMean == [i \in 1..Len(rrIntervalsMs) |->
                                    Square(Sub(rrIntervalsMs[i], meanNN))]
        variance == averageJS(squaredDiffsFromMean)
        successiveDiffs == SuccessiveDiffs(rrIntervalsMs)
        squaredSuccessiveDiffs ==
            [i \in 1..Len(successiveDiffs) |-> Square(successiveDiffs[i])]
        meanSquaredDiff == averageJS(squaredSuccessiveDiffs)
    IN  [t |-> "object",
         rmssd |-> Sqrt(meanSquaredDiff),
         sdnn |-> Sqrt(variance),
         pnn50 |-> Pnn50JS(successiveDiffs),
         meanNN |-> meanNN,
         minNN |-> MinNNJS(rrIntervalsMs),
         maxNN |-> MaxNNJS(rrIntervalsMs),
         totalRRIntervals |-> Int2Num(Len(rrIntervalsMs)),
         rrIntervals |-> Arr(rrIntervalsMs)]

calculateHRVMetricsJS(hrvMessages) ==
    IF ~Truthy(hrvMessages) \/ Len(hrvMessages.a) = 0 THEN Null
    ELSE LET rrIntervalsMs == ExtractRRIntervalsJS(hrvMessages.a)
         IN  IF Len(rrIntervalsMs) < 2 THEN Null ELSE MetricsJS(rrIntervalsMs)

----------------------------------------------------------------------------
(* HRV, TypeScript implementation: reads the scalar time of each message    *)
(* of the hrvValue group.                                                   *)

AcceptRRTS(hrv) ==
    LET time == Field(hrv, "time")
    IN  Truthy(time) /\ JsGreater(time, Int2Num(0))

TimeOf(hrv) == Field(hrv, "time")

ExtractRRIntervalsTS(hrvValues) ==
    LET accepted == SelectSeq(hrvValues, AcceptRRTS)
    IN  [i \in 1..Len(accepted) |-> TimeOf(accepted[i])]

ZeroMetricsTS ==
    [t |-> "object", rmssd |-> Int2Num(0), sdnn |-> Int2Num(0),
     pnn50 |-> Int2Num(0), meanNN |-> Int2Num(0), rrIntervals |-> Arr(<<>>)]

Pnn50TS(nnIntervals) ==
    LET nn50 == Len(SelectSeq(nnIntervals, ExceedsNN50))
        pnn50 == Mul(Num(nn50, Len(nnIntervals)), Int2Num(100))
    IN  DivInt(Round(Mul(pnn50, Int2Num(10))), 10)

MetricsTS(rrIntervals) ==
    LET nnIntervals == SuccessiveDiffs(rrIntervals)
        sumSquares ==
            SumSeq([i \in 1..Len(nnIntervals) |-> Square(nnIntervals[i])])
        meanNN == averageTS(rrIntervals)
        variance == DivInt(SumSeq([i \in 1..Len(rrIntervals) |->
                                      Square(Sub(rrIntervals[i], meanNN))]),
                           Len(rrIntervals))
    IN  [t |-> "object",
         rmssd |-> RoundSqrt(DivInt(sumSquares, Len(nnIntervals))),
         sdnn |-> RoundSqrt(variance),
         pnn50 |-> Pnn50TS(nnIntervals),
         meanNN |-> Round(meanNN),
         rrIntervals |-> Arr(rrIntervals)]

calculateHRVMetricsTS(hrvValues) ==
    LET rrIntervals == ExtractRRIntervalsTS(hrvValues)
    IN  IF Len(rrIntervals) < 2 THEN ZeroMetricsTS ELSE MetricsTS(rrIntervals)

----------------------------------------------------------------------------
(* Summary extraction, JavaScript implementation.                           *)

EmptyObject == [f \in {} |-> Undefined]

(* value[0] || {} and value.length of a group value.                        *)
FirstOrEmpty(v) == IF IsArray(v) /\ Len(v.a) > 0 THEN v.a[1] ELSE EmptyObject
Length(v) == IF IsArray(v) THEN Int2Num(Len(v.a)) ELSE Undefined

(* records.map(r => r.field).filter(v => v !== undefined && v !== null)     *)
Pluck(records, f) ==
    SelectSeq([i \in 1..Len(records) |-> Field(records[i], f)], NotNullish)

RespirationOf(r) ==
    Coalesce(Field(r, "respirationRate"),
    Coalesce(Field(r, "enhancedRespirationRate"),
    Coalesce(Field(r, "respiratoryRate"),
             Field(r, "breathsPerMinute"))))

NotNullishNotNaN(v) == ~IsNullish(v) /\ v.t # "NaN"

MaxOrNull(values) == IF Len(values) > 0 THEN MathMax(values) ELSE Null
(* Faulty variant: the minimum without the v > 0 filter.                    *)
MinOrNull(values) == IF Len(values) > 0 THEN MathMin(values) ELSE Null

MinPositiveOrNull(values) ==
    IF Len(values) > 0 THEN MathMin(SelectSeq(values, Positive)) ELSE Null

(* records.map, respirationMsgs.map and the for .. of of                    *)
(* calculateHRVMetrics raise a TypeError on a value that is not an array;   *)
(* parseFitFile then rejects.                                               *)
TypeError == [t |-> "TypeError"]

RaisesTypeErrorJS(data) ==
    \E k \in {"record", "respirationRate", "hrv"} :
        Truthy(data[k]) /\ ~IsArray(data[k])

extractSummaryJS(data) ==
    LET session == FirstOrEmpty(data.session)
        records == IF Truthy(data.record) THEN data.record.a ELSE <<>>
        fileId == FirstOrEmpty(data.fileId)
        S(f) == Field(session, f)
        hrValues == Pluck(records, "heartRate")
        cadenceValues == Pluck(records, "cadence")
        powerValues == Pluck(records, "power")
        temperatureValues == Pluck(records, "temperature")
        respirationValues ==
            SelectSeq([i \in 1..Len(records) |-> RespirationOf(records[i])],
                      NotNullishNotNaN)
        respirationMsgs ==
            IF Truthy(data.respirationRate) THEN data.respirationRate.a ELSE <<>>
        respirationFromMsgs == Pluck(respirationMsgs, "respirationRate")
        allRespirationValues == respirationValues \o respirationFromMsgs
    IN  [fileType |-> Field(fileId, "type"),
         manufacturer |-> Field(fileId, "manufacturer"),
         product |-> Field(fileId, "product"),
         serialNumber |-> Field(fileId, "serialNumber"),
         timeCreated |-> Field(fileId, "timeCreated"),
         sport |-> S("sport"),
         subSport |-> S("subSport"),
         startTime |-> Or(S("startTime"), S("timestamp")),
         totalElapsedTime |-> S("totalElapsedTime"),
         totalTimerTime |-> S("totalTimerTime"),
         totalDistance |-> S("totalDistance"),
         totalCalories |-> S("totalCalories"),
         avgHeartRate |-> Or(S("avgHeartRate"), averageJS(hrValues)),
         maxHeartRate |-> Or(S("maxHeartRate"), MaxOrNull(hrValues)),
         minHeartRate |-> Or(S("minHeartRate"), MinPositiveOrNull(hrValues)),
         avgSpeed |-> Or(S("avgSpeed"), S("enhancedAvgSpeed")),
         maxSpeed |-> Or(S("maxSpeed"), S("enhancedMaxSpeed")),
         avgCadence |-> Or(S("avgCadence"),
                           Or(S("avgRunningCadence"), averageJS(cadenceValues))),
         maxCadence |-> Or(S("maxCadence"),
                           Or(S("maxRunningCadence"), MaxOrNull(cadenceValues))),
         avgPower |-> Or(S("avgPower"), averageJS(powerValues)),
         maxPower |-> Or(S("maxPower"), MaxOrNull(powerValues)),
         normalizedPower |-> S("normalizedPower"),
         trainingStressScore |-> S("trainingStressScore"),
         intensityFactor |-> S("intensityFactor"),
         thresholdPower |-> S("thresholdPower"),
         totalAscent |-> S("totalAscent"),
         totalDescent |-> S("totalDescent"),
         avgAltitude |-> Or(S("avgAltitude"), S("enhancedAvgAltitude")),
         maxAltitude |-> Or(S("maxAltitude"), S("enhancedMaxAltitude")),
         minAltitude |-> Or(S("minAltitude"), S("enhancedMinAltitude")),
         avgRespirationRate |->
             Or(S("avgRespirationRate"),
                Or(S("enhancedAvgRespirationRate"), averageJS(allRespirationValues))),
         maxRespirationRate |->
             Or(S("maxRespirationRate"),
                Or(S("enhancedMaxRespirationRate"), MaxOrNull(allRespirationValues))),
         minRespirationRate |->
             Or(S("minRespirationRate"),
                Or(S("enhancedMinRespirationRate"),
                   MinPositiveOrNull(allRespirationValues))),
         respirationRecordCount |-> Int2Num(Len(allRespirationValues)),
         avgTemperature |-> Or(S("avgTemperature"), averageJS(temperatureValues)),
         maxTemperature |-> Or(S("maxTemperature"), MaxOrNull(temperatureValues)),
         minTemperature |->
             Or(S("minTemperature"), MinPositiveOrNull(temperatureValues)),
         trainingEffect |-> S("totalTrainingEffect"),
         anaerobicTrainingEffect |-> S("totalAnaerobicTrainingEffect"),
         hrvRecordCount |->
             Add(Or(Length(data.hrv), Int2Num(0)),
                 Or(Length(data.hrvValue), Int2Num(0))),
         totalStrokes |-> S("totalStrokes"),
         avgStrokeDistance |-> S("avgStrokeDistance"),
         swimStroke |-> S("swimStroke"),
         poolLength |-> S("poolLength"),
         startPositionLat |-> S("startPositionLat"),
         startPositionLong |-> S("startPositionLong"),
         totalRecords |-> Int2Num(Len(records)),
         totalLaps |-> Or(Length(data.lap), Int2Num(0)),
         totalEvents |-> Or(Length(data.event), Int2Num(0)),
         hrvAnalysis |-> calculateHRVMetricsJS(data.hrv)]

----------------------------------------------------------------------------
(* Summary extraction, TypeScript implementation.  The summary object is    *)
(* built by successive assignments; a field never assigned reads undefined. *)

SummaryFieldsTS ==
    {"sport", "subSport", "startTime", "totalElapsedTime", "totalTimerTime",
     "totalDistance", "totalCalories", "avgHeartRate", "maxHeartRate",
     "minHeartRate", "avgSpeed", "maxSpeed", "avgPace", "avgCadence",
     "maxCadence", "avgPower", "maxPower", "normalizedPower",
     "trainingStressScore", "intensityFactor", "totalAscent", "totalDescent",
     "avgAltitude", "totalTrainingEffect", "totalAnaerobicEffect",
     "temperature", "avgRespirationRate", "maxRespirationRate",
     "minRespirationRate", "hrvRecords", "rmssd", "sdnn", "pnn50", "meanNN",
     "totalRecords", "totalLaps", "totalSessions"}

(* The fields copied verbatim from session[0] (lines 474-510).              *)
SessionCopiedTS ==
    {"sport", "subSport", "totalElapsedTime", "totalTimerTime",
     "totalDistance", "totalCalories", "avgHeartRate", "maxHeartRate",
     "avgSpeed", "maxSpeed", "avgCadence", "maxCadence", "avgPower",
     "maxPower", "normalizedPower", "trainingStressScore", "intensityFactor",
     "totalAscent", "totalDescent", "avgAltitude", "totalTrainingEffect",
     "totalAnaerobicEffect"}

(* new Date(session.startTime * 1000)                                       *)
DateOf(seconds) == [t |-> "object", ms |-> Mul(seconds, MsPerSecond)]

(* value && value.length > 0                                                *)
NonEmpty(v) == Truthy(v) /\ JsGreater(Length(v), Int2Num(0))

SessionPartTS(raw) ==
    IF NonEmpty(raw.session)
    THEN LET session == raw.session.a[1]
         IN  [f \in SummaryFieldsTS |->
                 IF f \in SessionCopiedTS THEN Field(session, f)
                 ELSE IF f = "startTime" /\ Truthy(Field(session, "startTime"))
                      THEN DateOf(Field(session, "startTime"))
                      ELSE Undefined]
    ELSE [f \in SummaryFieldsTS |-> Undefined]

HeartRatePartTS(summary, records) ==
    LET heartRates == Pluck(records, "heartRate")
    IN  IF ~Truthy(summary.avgHeartRate) /\ Len(heartRates) > 0
        THEN [summary EXCEPT !.avgHeartRate = Round(averageTS(heartRates)),
                             !.maxHeartRate = Round(maxTS(heartRates)),
                             !.minHeartRate = Round(minTS(heartRates))]
        ELSE summary

CadencePartTS(summary, records) ==
    LET cadences == Pluck(records, "cadence")
    IN  IF ~Truthy(summary.avgCadence) /\ Len(cadences) > 0
        THEN [summary EXCEPT !.avgCadence = Round(averageTS(cadences)),
                             !.maxCadence = Round(maxTS(cadences))]
        ELSE summary

PowerPartTS(summary, records) ==
    LET powers == Pluck(records, "power")
    IN  IF ~Truthy(summary.avgPower) /\ Len(powers) > 0
        THEN [summary EXCEPT !.avgPower = Round(averageTS(powers)),
                             !.maxPower = Round(maxTS(powers))]
        ELSE summary

SpeedPartTS(summary, records) ==
    LET speeds == Pluck(records, "speed")
    IN  IF ~Truthy(summary.avgSpeed) /\ Len(speeds) > 0
        THEN [summary EXCEPT !.avgSpeed = averageTS(speeds),
                             !.maxSpeed = maxTS(speeds)]
        ELSE summary

AltitudePartTS(summary, records) ==
    LET altitudes == Pluck(records, "altitude")
    IN  IF ~Truthy(summary.avgAltitude) /\ Len(altitudes) > 0
        THEN [summary EXCEPT !.avgAltitude = averageTS(altitudes)]
        ELSE summary

TemperaturePartTS(summary, records) ==
    LET temperatures == Pluck(records, "temperature")
    IN  IF Len(temperatures) > 0
        THEN [summary EXCEPT !.temperature = Round(averageTS(temperatures))]
        ELSE summary

RecordPartTS(summary, raw) ==
    IF NonEmpty(raw.record)
    THEN LET records == raw.record.a
         IN  TemperaturePartTS(AltitudePartTS(SpeedPartTS(PowerPartTS(
                 CadencePartTS(HeartRatePartTS(summary, records), records),
                 records), records), records), records)
    ELSE summary

RespirationPartTS(summary, raw) ==
    LET respRates == Pluck(raw.respirationRate.a, "respirationRate")
    IN  IF NonEmpty(raw.respirationRate) /\ Len(respRates) > 0
        THEN [summary EXCEPT !.avgRespirationRate = Round(averageTS(respRates)),
                             !.maxRespirationRate = Round(maxTS(respRates)),
                             !.minRespirationRate = Round(minTS(respRates))]
        ELSE summary

HRVPartTS(summary, raw) ==
    IF NonEmpty(raw.hrvValue)
    THEN LET hrvMetrics == calculateHRVMetricsTS(raw.hrvValue.a)
         IN  [summary EXCEPT !.hrvRecords = Int2Num(Len(raw.hrvValue.a)),
                             !.rmssd = hrvMetrics.rmssd,
                             !.sdnn = hrvMetrics.sdnn,
                             !.pnn50 = hrvMetrics.pnn50,
                             !.meanNN = hrvMetrics.meanNN]
    ELSE summary

CountsPartTS(summary, raw) ==
    [summary EXCEPT !.totalRecords = Or(Length(raw.record), Int2Num(0)),
                    !.totalLaps = Or(Length(raw.lap), Int2Num(0)),
                    !.totalSessions = Or(Length(raw.session), Int2Num(0))]

(* 1000 / (avgSpeed * 60)                                                   *)
PaceOf(avgSpeed) == Num(1000 * avgSpeed.d, avgSpeed.n * 60)

PacePartTS(summary) ==
    IF Truthy(summary.avgSpeed) /\ JsGreater(summary.avgSpeed, Int2Num(0))
    THEN [summary EXCEPT !.avgPace = PaceOf(summary.avgSpeed)]
    ELSE summary

extractSummaryTS(raw) ==
    PacePartTS(CountsPartTS(HRVPartTS(RespirationPartTS(
        RecordPartTS(SessionPartTS(raw), raw), raw), raw), raw))

----------------------------------------------------------------------------
(* Normalisation of the decoder's bundle (processMessages).  The decoder    *)
(* names the group of type k "kMesgs".                                      *)

GroupKeysJS ==
  <<
    "fileId", "activity", "session", "lap", "record", "event", "hrv",
    "hrvStatusSummary", "hrvValue", "respirationRate", "stressLevel",
    "deviceInfo", "deviceSettings", "userProfile", "sport", "workout",
    "workoutStep", "trainingFile", "zonesTarget", "gpsMetadata", "course",
    "coursePoint", "monitoring", "monitoringInfo", "length", "split",
    "splitSummary", "set", "jump", "climbPro", "fieldDescription",
    "developerDataId"
  >>

GroupKeysTS ==
  <<
    "fileId", "activity", "session", "lap", "record", "event", "hrv",
    "hrvStatusSummary", "hrvValue", "respirationRate", "stressLevel",
    "deviceInfo", "userProfile", "trainingZones", "workout", "workoutStep",
    "lengths", "splits", "splitSummary", "monitoring", "gpsMetadata",
    "climbPro", "set", "jump"
  >>

MesgsKey ==
  [
    fileId |-> "fileIdMesgs", activity |-> "activityMesgs",
    session |-> "sessionMesgs", lap |-> "lapMesgs",
    record |-> "recordMesgs", event |-> "eventMesgs", hrv |-> "hrvMesgs",
    hrvStatusSummary |-> "hrvStatusSummaryMesgs",
    hrvValue |-> "hrvValueMesgs",
    respirationRate |-> "respirationRateMesgs",
    stressLevel |-> "stressLevelMesgs", deviceInfo |-> "deviceInfoMesgs",
    deviceSettings |-> "deviceSettingsMesgs",
    userProfile |-> "userProfileMesgs", sport |-> "sportMesgs",
    workout |-> "workoutMesgs", workoutStep |-> "workoutStepMesgs",
    trainingFile |-> "trainingFileMesgs",
    zonesTarget |-> "zonesTargetMesgs", gpsMetadata |-> "gpsMetadataMesgs",
    course |-> "courseMesgs", coursePoint |-> "coursePointMesgs",
    monitoring |-> "monitoringMesgs",
    monitoringInfo |-> "monitoringInfoMesgs", length |-> "lengthMesgs",
    split |-> "splitMesgs", splitSummary |-> "splitSummaryMesgs",
    set |-> "setMesgs", jump |-> "jumpMesgs", climbPro |-> "climbProMesgs",
    fieldDescription |-> "fieldDescriptionMesgs",
    developerDataId |-> "developerDataIdMesgs",
    trainingZones |-> "trainingZonesMesgs", lengths |-> "lengthsMesgs",
    splits |-> "splitsMesgs"
  ]

Range(seq) == {seq[i] : i \in 1..Len(seq)}

(* messages.kMesgs || []                                                    *)
GroupOrEmpty(msgs, k) == Or(Field(msgs, MesgsKey[k]), Arr(<<>>))

(* extractAvailableDataTypes: key, label and group, in the order of         *)
(* dataTypeConfig.                                                          *)
DataTypeConfig ==
  <<
    <<"session", "Sessions">>, <<"lap", "Laps">>, <<"record", "Records">>,
    <<"event", "Events">>, <<"hrv", "HRV Data">>,
    <<"hrvValue", "HRV Values">>, <<"hrvStatusSummary", "HRV Status">>,
    <<"respirationRate", "Respiration Rate">>,
    <<"stressLevel", "Stress Level">>, <<"deviceInfo", "Device Info">>,
    <<"fileId", "File Info">>, <<"sport", "Sport">>,
    <<"userProfile", "User Profile">>, <<"zonesTarget", "Training Zones">>,
    <<"workout", "Workout">>, <<"workoutStep", "Workout Steps">>,
    <<"length", "Lengths">>, <<"split", "Splits">>,
    <<"splitSummary", "Split Summary">>, <<"monitoring", "Monitoring">>,
    <<"gpsMetadata", "GPS Metadata">>, <<"climbPro", "ClimbPro">>,
    <<"set", "Sets">>, <<"jump", "Jumps">>
  >>

HasData(source) == Truthy(source) /\ IsArray(source) /\ Len(source.a) > 0

RECURSIVE TypesFrom(_, _)
TypesFrom(data, config) ==
    IF config = <<>> THEN <<>>
    ELSE LET key == Head(config)[1]
             source == data[key]
         IN  (IF HasData(source)
              THEN <<[key |-> key, label |-> Head(config)[2],
                      count |-> Len(source.a), data |-> source.a]>>
              ELSE <<>>) \o TypesFrom(data, Tail(config))

extractAvailableDataTypes(data) == TypesFrom(data, DataTypeConfig)

processMessagesJS(msgs) ==
    LET result == [k \in Range(GroupKeysJS) |-> GroupOrEmpty(msgs, k)]
    IN  IF RaisesTypeErrorJS(result) THEN TypeError
        ELSE [groups |-> result,
              raw |-> msgs,
              summary |-> extractSummaryJS(result),
              availableDataTypes |-> extractAvailableDataTypes(result)]

(* getAvailableDataTypes: the entries of typeMap, name and the group read.  *)
TypeMapTS ==
  <<
    <<"sessions", "session">>, <<"laps", "lap">>, <<"records", "record">>,
    <<"events", "event">>, <<"hrv", "hrv">>, <<"hrvValue", "hrvValue">>,
    <<"hrvStatusSummary", "hrvStatusSummary">>,
    <<"respirationRate", "respirationRate">>,
    <<"stressLevel", "stressLevel">>, <<"deviceInfo", "deviceInfo">>,
    <<"userProfile", "userProfile">>, <<"trainingZones", "trainingZones">>,
    <<"workout", "workout">>, <<"workoutStep", "workoutStep">>,
    <<"lengths", "lengths">>, <<"splits", "splits">>,
    <<"splitSummary", "splitSummary">>, <<"monitoring", "monitoring">>,
    <<"gpsMetadata", "gpsMetadata">>, <<"climbPro", "climbPro">>,
    <<"set", "set">>, <<"jump", "jump">>
  >>

RECURSIVE DataTypesFrom(_, _)
DataTypesFrom(raw, typeMap) ==
    IF typeMap = <<>> THEN <<>>
    ELSE LET data == raw[Head(typeMap)[2]]
         IN  (IF NonEmpty(data)
              THEN <<Head(typeMap)[1]>> ELSE <<>>)
             \o DataTypesFrom(raw, Tail(typeMap))

getAvailableDataTypes(raw) == DataTypesFrom(raw, TypeMapTS)

processMessagesTS(msgs) ==
    LET raw == [k \in Range(GroupKeysTS) |-> GroupOrEmpty(msgs, k)]
    IN  [summary |-> extractSummaryTS(raw),
         availableDataTypes |-> getAvailableDataTypes(raw),
         raw |-> raw]

----------------------------------------------------------------------------
(* The decoder's outputs the model is run on.                               *)

MaxRecords == 3
MaxIntervals == 3

SeqsUpTo(S, n) == UNION {[1..k -> S] : k \in 0..n}

(* An object with the fields of fs whose value in vals is not undefined.    *)
Obj(fs, vals) == [f \in {g \in fs : vals[g] # Undefined} |-> vals[f]]

(* A bundle holds a key only for a message type the file contains.          *)
BundleOf(groups) ==
    [k \in {g \in DOMAIN groups : groups[g] # <<>>} |-> Arr(groups[k])]

(* Metric families: the session aggregates and the per-record field.        *)
Families ==
    {[avg |-> "avgHeartRate", max |-> "maxHeartRate", rec |-> "heartRate"],
     [avg |-> "avgCadence", max |-> "maxCadence", rec |-> "cadence"],
     [avg |-> "avgPower", max |-> "maxPower", rec |-> "power"],
     [avg |-> "avgSpeed", max |-> "maxSpeed", rec |-> "speed"],
     [avg |-> "avgAltitude", max |-> "maxAltitude", rec |-> "altitude"]}

SessionAvgValues == {Undefined, Null, Int2Num(0), Int2Num(150)}
SessionMaxValues == {Undefined, Null, Int2Num(0), Int2Num(180)}
RecordValues == {Undefined, Null, Int2Num(0), Int2Num(100), Int2Num(121)}

SessionGroups(fam) ==
    {<<>>} \cup
    {<<Obj({fam.avg, fam.max}, [f \in {fam.avg, fam.max} |->
                                   IF f = fam.avg THEN a ELSE m])>> :
        a \in SessionAvgValues, m \in SessionMaxValues}

RecordGroups(fam) ==
    {[i \in 1..Len(vs) |-> Obj({fam.rec}, [f \in {fam.rec} |-> vs[i]])] :
        vs \in SeqsUpTo(RecordValues, MaxRecords)}

HeartRateRecords(vs) == [i \in 1..Len(vs) |-> [heartRate |-> Int2Num(vs[i])]]

SummaryScenarios ==
    {BundleOf([recordMesgs |-> HeartRateRecords(<<100, 110, 120>>)]),
     BundleOf([sessionMesgs |-> <<[avgHeartRate |-> Int2Num(150)]>>,
               recordMesgs |-> HeartRateRecords(<<130, 140, 150>>)]),
     BundleOf([sessionMesgs |-> <<[avgSpeed |-> Int2Num(-3)]>>])}

(* hrv messages carry arrays of RR intervals in seconds.                    *)
TimeValues ==
    {Undefined, Null, NaN, Infinity, Num(-1, 2), Int2Num(0), Num(65535, 1000),
     Num(800, 1000), Num(850, 1000), Num(901, 1000)}

HrvGroups ==
    UNION {{<<[time |-> Arr(SubSeq(vs, 1, k))],
              [time |-> Arr(SubSeq(vs, k + 1, Len(vs)))]>> : k \in 0..Len(vs)}
           \cup {<<[time |-> Arr(vs)]>>,
                 <<[timestamp |-> Int2Num(1)], [time |-> Arr(vs)]>>} :
           vs \in SeqsUpTo(TimeValues, MaxIntervals)}

TimesInSeconds(ms) == [i \in 1..Len(ms) |-> Num(ms[i], 1000)]

HrvScenarios ==
    {<<[time |-> Arr(TimesInSeconds(<<800, 850, 820>>))],
       [time |-> Arr(TimesInSeconds(<<900, 780>>))]>>,
     <<[time |-> Arr(TimesInSeconds(<<800, 850, 901, 901>>))]>>,
     <<[time |-> Arr(TimesInSeconds(<<65534, 65480>>))]>>,
     <<[time |-> Arr(TimesInSeconds(<<1, 1, 1, 1>>))]>>}

(* hrvValue messages as the TypeScript code reads them: a scalar time.      *)
ScalarTimeValues ==
    {Undefined, Null, Int2Num(0), Num(800, 1000), Int2Num(70), Int2Num(800),
     Int2Num(850), Int2Num(901)}

HrvValueGroups ==
    {[i \in 1..Len(vs) |-> Obj({"time"}, [f \in {"time"} |-> vs[i]])] :
        vs \in SeqsUpTo(ScalarTimeValues, MaxIntervals)}
    \cup {[i \in 1..4 |-> [time |-> Int2Num(<<800, 850, 901, 901>>[i])]]}

----------------------------------------------------------------------------
(* State: the decoded bundle and the result of each implementation's        *)
(* parseFitFile on it (null until it has run).  The parsers are run on      *)
(* their own here: no application has been constructed around them.         *)

NoApplication ==
    /\ state = Null
    /\ storage = Null
    /\ view = Null
    /\ calls = Null
    /\ uploads = <<>>

parseFitFileJS ==
    /\ jsData = Null
    /\ jsData' = processMessagesJS(messages)
    /\ UNCHANGED <<messages, tsData, appVars>>

parseFitFileTS ==
    /\ tsData = Null
    /\ tsData' = processMessagesTS(messages)
    /\ UNCHANGED <<messages, jsData, appVars>>

Next == parseFitFileJS \/ parseFitFileTS

Init ==
    /\ \/ messages \in SummaryScenarios
       \/ \E fam \in Families :
             \E s \in SessionGroups(fam), r \in RecordGroups(fam) :
                messages = BundleOf([sessionMesgs |-> s, recordMesgs |-> r])
    /\ jsData = Null
    /\ tsData = Null
    /\ NoApplication

Spec == Init /\ [][Next]_vars

InitHRV ==
    /\ \/ \E h \in HrvGroups \cup HrvScenarios :
             messages = BundleOf([hrvMesgs |-> h])
       \/ \E h \in HrvValueGroups :
             messages = BundleOf([hrvValueMesgs |-> h])
    /\ jsData = Null
    /\ tsData = Null
    /\ NoApplication

SpecHRV == InitHRV /\ [][Next]_vars

(* Bundles for the normaliser and the catalog.  A key of the bundle may be  *)
(* missing (undefined) or hold null, a number, or an array of messages.     *)
FirstMessage == [timestamp |-> Int2Num(1)]
SecondMessage == [timestamp |-> Int2Num(2)]

GroupValues ==
    {Undefined, Null, Int2Num(0), Int2Num(7), Arr(<<>>), Arr(<<FirstMessage>>),
     Arr(<<FirstMessage, SecondMessage>>)}

ArrayValues ==
    {Arr(<<>>), Arr(<<FirstMessage>>), Arr(<<FirstMessage, SecondMessage>>)}

CommonKeys == {"session", "record", "deviceInfo"}

OtherKeys ==
    {"lap", "hrv", "activity", "course", "trainingZones", "zonesTarget"}

KnownKeys == Range(GroupKeysJS) \cup Range(GroupKeysTS)

(* Bundles with some keys, under the decoder's names, and any value.        *)
PartialBundles(other) ==
    {Obj({MesgsKey[k] : k \in DOMAIN v}, [f \in {MesgsKey[k] : k \in DOMAIN v} |->
             v[CHOOSE k \in DOMAIN v : MesgsKey[k] = f]]) :
        v \in [CommonKeys \cup {other} -> GroupValues]}

(* Bundles holding every known type: under the decoder's names, and under   *)
(* the names of the normalised structure.                                   *)
CompleteBundles(other) ==
    {[f \in {MesgsKey[k] : k \in KnownKeys} |->
         LET k == CHOOSE g \in KnownKeys : MesgsKey[g] = f
         IN  IF k \in DOMAIN v THEN v[k] ELSE Arr(<<>>)] :
        v \in [CommonKeys \cup {other} -> ArrayValues]}

NormalizedBundles(other) ==
    {[k \in KnownKeys |-> IF k \in DOMAIN v THEN v[k] ELSE Arr(<<>>)] :
        v \in [CommonKeys \cup {other} -> ArrayValues]}

InitNorm ==
    /\ \E other \in OtherKeys :
          messages \in PartialBundles(other) \cup CompleteBundles(other)
                           \cup NormalizedBundles(other)
    /\ jsData = Null
    /\ tsData = Null
    /\ NoApplication

SpecNorm == InitNorm /\ [][Next]_vars

(* Bundles with per-sample values: records carrying respiration under its   *)
(* aliases, dedicated respiration messages, and records of heart rate or    *)
(* temperature with readings that are 0 or negative.                        *)
RespirationRecords ==
    {[timestamp |-> Int2Num(1)],
     [respirationRate |-> Int2Num(12)],
     [respirationRate |-> Null, enhancedRespirationRate |-> Int2Num(14)],
     [enhancedRespirationRate |-> Int2Num(14), respiratoryRate |-> Int2Num(20)],
     [respiratoryRate |-> Int2Num(16), breathsPerMinute |-> Int2Num(18)],
     [breathsPerMinute |-> Int2Num(19)],
     [respirationRate |-> Int2Num(0), breathsPerMinute |-> Int2Num(18)]}

RespirationMessageGroups ==
    {<<>>,
     <<[respirationRate |-> Int2Num(13)]>>,
     <<[respirationRate |-> Int2Num(0)], [respirationRate |-> Int2Num(15)]>>,
     <<[timestamp |-> Int2Num(1)], [respirationRate |-> Null],
       [respirationRate |-> Int2Num(13)]>>}

RespirationSessions ==
    {<<>>,
     <<[avgRespirationRate |-> Int2Num(15)]>>,
     <<[enhancedMinRespirationRate |-> Int2Num(9)]>>}

MinFamilies ==
    {[min |-> "minHeartRate", rec |-> "heartRate"],
     [min |-> "minTemperature", rec |-> "temperature"]}

SampleValues ==
    {Undefined, Null, Int2Num(-5), Int2Num(0), Int2Num(20), Int2Num(37)}

MinSessionGroups(fam) ==
    {<<>>} \cup {<<Obj({fam.min}, [f \in {fam.min} |-> v])>> :
                    v \in {Int2Num(0), Int2Num(30)}}

InitSamples ==
    /\ \/ \E s \in RespirationSessions, m \in RespirationMessageGroups :
             \E r \in SeqsUpTo(RespirationRecords, MaxRecords) :
                messages = BundleOf([sessionMesgs |-> s, recordMesgs |-> r,
                                     respirationRateMesgs |-> m])
       \/ \E fam \in MinFamilies :
             \E s \in MinSessionGroups(fam),
                vs \in SeqsUpTo(SampleValues, MaxRecords) :
                messages =
                    BundleOf([sessionMesgs |-> s,
                              recordMesgs |->
                                  [i \in 1..Len(vs) |->
                                      Obj({fam.rec}, [f \in {fam.rec} |-> vs[i]])]])
    /\ jsData = Null
    /\ tsData = Null
    /\ NoApplication

SpecSamples == InitSamples /\ [][Next]_vars

----------------------------------------------------------------------------
(* Properties.  The inputs are read from the bundle itself and the expected *)
(* statistics are stated by their defining equations, not by the operators  *)
(* of the implementations.                                                  *)

InputGroup(k) == IF k \in DOMAIN messages THEN messages[k].a ELSE <<>>

InputSession ==
    IF InputGroup("sessionMesgs") = <<>> THEN EmptyObject
    ELSE InputGroup("sessionMesgs")[1]

IsPresentValue(v) == v.t \notin {"undefined", "null"}

InputRecordValues(f) ==
    LET recs == InputGroup("recordMesgs")
    IN  SelectSeq([i \in 1..Len(recs) |-> Field(recs[i], f)], IsPresentValue)

IsPositiveNumber(v) == v.t = "number" /\ v.n > 0

(* v is the arithmetic mean of vals: v * count = sum.                       *)
IsMeanOf(v, vals) ==
    /\ v.t = "number"
    /\ Mul(v, Int2Num(Len(vals))) = SumSeq(vals)

(* r is the integer nearest to q, halves upwards: r - 1/2 <= q < r + 1/2.   *)
IsNearestInteger(r, q) ==
    /\ r.t = "number"
    /\ r.d = 1
    /\ (2 * r.n - 1) * q.d <= 2 * q.n
    /\ 2 * q.n < (2 * r.n + 1) * q.d

IsRoundedMeanOf(r, vals) ==
    /\ vals # <<>>
    /\ IsNearestInteger(r, DivInt(SumSeq(vals), Len(vals)))

IsMaxOf(v, vals) ==
    /\ \E i \in 1..Len(vals) : vals[i] = v
    /\ \A i \in 1..Len(vals) : ~Less(v, vals[i])

IsMinOf(v, vals) ==
    /\ \E i \in 1..Len(vals) : vals[i] = v
    /\ \A i \in 1..Len(vals) : ~Less(vals[i], v)

ParsedJS == jsData # Null
ParsedTS == tsData # Null

(* C1.  Session precedence: a positive session aggregate is reported as is, *)
(* whatever the records hold, by both implementations.                      *)
SessionAggregateFields ==
    {"avgHeartRate", "maxHeartRate", "avgCadence", "maxCadence", "avgPower",
     "maxPower", "avgSpeed", "maxSpeed", "avgAltitude"}

SessionPrecedenceIn(summary) ==
    \A f \in SessionAggregateFields :
        IsPositiveNumber(Field(InputSession, f)) =>
            summary[f] = Field(InputSession, f)

C1_SessionPrecedence ==
    /\ ParsedJS => SessionPrecedenceIn(jsData.summary)
    /\ ParsedTS => SessionPrecedenceIn(tsData.summary)

(* C1, JavaScript implementation alone: the precedence holds there.         *)
C1_SessionPrecedenceJS == ParsedJS => SessionPrecedenceIn(jsData.summary)

(* C2 as stated.  Without session heart-rate fields and with at least one   *)
(* non-null record heartRate, avg / max / min heart rate are the mean, the  *)
(* maximum and the minimum of the non-null record values.                   *)
NoSessionHeartRate ==
    {"avgHeartRate", "maxHeartRate", "minHeartRate"} \cap DOMAIN InputSession = {}

RecordHeartRates == InputRecordValues("heartRate")

RecordFallbackCase == NoSessionHeartRate /\ RecordHeartRates # <<>>

ExactHeartRateStats(summary) ==
    /\ IsMeanOf(summary.avgHeartRate, RecordHeartRates)
    /\ IsMaxOf(summary.maxHeartRate, RecordHeartRates)
    /\ IsMinOf(summary.minHeartRate, RecordHeartRates)

PositiveHeartRates == SelectSeq(RecordHeartRates, IsPositiveNumber)

FallbackFamilies ==
    {fam \in Families : fam.rec \in {"heartRate", "cadence", "power"}}

PerFieldFallbackIn(summary) ==
    \A fam \in FallbackFamilies :
        LET vals == InputRecordValues(fam.rec)
            sAvg == Field(InputSession, fam.avg)
            sMax == Field(InputSession, fam.max)
        IN  /\ IsPositiveNumber(sAvg) => summary[fam.avg] = sAvg
            /\ IsPositiveNumber(sMax) => summary[fam.max] = sMax
            /\ (~IsPresentValue(sAvg) /\ vals # <<>>) =>
                  \/ IsMeanOf(summary[fam.avg], vals)
                  \/ IsRoundedMeanOf(summary[fam.avg], vals)
            /\ (~IsPresentValue(sMax) /\ vals # <<>>) =>
                  IsMaxOf(summary[fam.max], vals)

C3_PerFieldFallback ==
    /\ ParsedJS => PerFieldFallbackIn(jsData.summary)
    /\ ParsedTS => PerFieldFallbackIn(tsData.summary)

(* C3, JavaScript implementation alone: each field falls back on its own.   *)
C3_PerFieldFallbackJS == ParsedJS => PerFieldFallbackIn(jsData.summary)

----------------------------------------------------------------------------
(* HRV properties.                                                          *)

RECURSIVE FlattenTimes(_)
FlattenTimes(msgs) ==
    IF msgs = <<>> THEN <<>>
    ELSE LET m == Head(msgs)
         IN  (IF "time" \in DOMAIN m /\ m.time.t = "array" THEN m.time.a ELSE <<>>)
             \o FlattenTimes(Tail(msgs))

(* Every entry of the time arrays of the hrv group, in message order and    *)
(* then array order.                                                        *)
InputTimes == FlattenTimes(InputGroup("hrvMesgs"))

(* A finite number v with 0 < v < 65.535.                                   *)
IsValidRR(v) == v.t = "number" /\ v.n > 0 /\ 1000 * v.n < 65535 * v.d

InMs(v) == Num(1000 * v.n, v.d)

ExpectedIntervals ==
    LET valid == SelectSeq(InputTimes, IsValidRR)
    IN  [i \in 1..Len(valid) |-> InMs(valid[i])]

(* What each implementation extracts from the group it reads.               *)
ExtractedJS == ExtractRRIntervalsJS(jsData.groups.hrv.a)
ExtractedTS == ExtractRRIntervalsTS(tsData.raw.hrvValue.a)
ResultJS == jsData.summary.hrvAnalysis
ResultTS == calculateHRVMetricsTS(tsData.raw.hrvValue.a)

(* The scalar times of the hrvValue messages, the TypeScript input.         *)
InputScalarTimes ==
    LET msgs == InputGroup("hrvValueMesgs")
    IN  [i \in 1..Len(msgs) |-> Field(msgs[i], "time")]

IsAbsent(v) == v.t \in {"undefined", "null"}

(* C4.  Fewer than 2 accepted intervals: calculateHRVMetrics returns absent *)
(* (null / undefined), never a zero-filled structure.                       *)
C4_AbsentWhenInsufficient ==
    /\ (ParsedJS /\ Len(ExpectedIntervals) < 2) => IsAbsent(ResultJS)
    /\ (ParsedTS /\ InputScalarTimes # <<>> /\ Len(ExtractedTS) < 2) =>
          IsAbsent(ResultTS)

(* C4, JavaScript implementation alone.                                     *)
C4_AbsentWhenInsufficientJS ==
    (ParsedJS /\ Len(ExpectedIntervals) < 2) => IsAbsent(ResultJS)

(* C5.  The HRV section of the summary comes from the arrays of the hrv     *)
(* group: absent (no rmssd, sdnn, pnn50, meanNN) with fewer than 2 valid    *)
(* intervals there, present with 2 or more.                                 *)
HrvFieldsTS == {"rmssd", "sdnn", "pnn50", "meanNN"}

HrvSectionAbsentTS == \A f \in HrvFieldsTS : IsAbsent(tsData.summary[f])
HrvSectionPresentTS == \A f \in HrvFieldsTS : ~IsAbsent(tsData.summary[f])

C5_HrvSectionFromHrvGroup ==
    /\ ParsedJS => (IsAbsent(ResultJS) <=> Len(ExpectedIntervals) < 2)
    /\ ParsedTS => /\ Len(ExpectedIntervals) < 2 => HrvSectionAbsentTS
                   /\ Len(ExpectedIntervals) >= 2 => HrvSectionPresentTS

(* C5, JavaScript implementation alone.                                     *)
C5_HrvSectionFromHrvGroupJS ==
    ParsedJS =>
        /\ IsAbsent(ResultJS) <=> Len(ExpectedIntervals) < 2
        /\ ~IsAbsent(ResultJS) => ResultJS.rrIntervals.a = ExtractedJS

(* C6.  Filtering: the extracted values are exactly the entries v that are  *)
(* finite numbers with 0 < v < 65.535, each as v * 1000, so every extracted *)
(* interval i has 0 < i < 65535.                                            *)
Count(seq, x) == Cardinality({i \in 1..Len(seq) : seq[i] = x})

ExactlyTheValid(extracted, entries) ==
    /\ \A i \in 1..Len(extracted) :
          /\ extracted[i].t = "number"
          /\ Less(Int2Num(0), extracted[i])
          /\ Less(extracted[i], Int2Num(65535))
    /\ Len(extracted) = Len(SelectSeq(entries, IsValidRR))
    /\ \A i \in 1..Len(entries) :
          IsValidRR(entries[i]) =>
              Count(extracted, InMs(entries[i])) = Count(entries, entries[i])

C6_FilterExact ==
    /\ ParsedJS => ExactlyTheValid(ExtractedJS, InputTimes)
    /\ ParsedTS => ExactlyTheValid(ExtractedTS, InputScalarTimes)

(* C6, JavaScript implementation alone.                                     *)
C6_FilterExactJS == ParsedJS => ExactlyTheValid(ExtractedJS, InputTimes)

(* C7.  Order: the extracted sequence is the accepted entries in message    *)
(* order and then array order, each scaled by 1000 (JavaScript extraction   *)
(* loop); the intervals kept in the result are that same sequence.          *)
C7_OrderPreserved ==
    ParsedJS =>
        /\ ExtractedJS = ExpectedIntervals
        /\ ~IsAbsent(ResultJS) => ResultJS.rrIntervals.a = ExpectedIntervals

(* C7 witness: two messages both contribute, an entry between is dropped.   *)
C7_Witness ==
    /\ ParsedJS
    /\ Len(InputGroup("hrvMesgs")) = 2
    /\ InputTimes = <<Num(901, 1000), Null, Num(4, 5)>>
    /\ InputGroup("hrvMesgs")[1].time.a = <<Num(901, 1000), Null>>
    /\ ResultJS.rrIntervals.a = <<Int2Num(901), Int2Num(800)>>

(* The successive differences of a sequence and how many exceed 50.         *)
DiffAt(rr, i) == AbsNum(Sub(rr[i + 1], rr[i]))
NN50Count(rr) ==
    Cardinality({i \in 1..(Len(rr) - 1) : Less(Int2Num(50), DiffAt(rr, i))})

(* C8 as stated: pnn50 = 100 * count / (N - 1) exactly, in both             *)
(* implementations.                                                         *)
IsExactPnn50(p, rr) ==
    /\ p.t = "number"
    /\ Mul(p, Int2Num(Len(rr) - 1)) = Int2Num(100 * NN50Count(rr))

C8_Pnn50AsStated ==
    /\ (ParsedJS /\ Len(ExpectedIntervals) >= 2) =>
          IsExactPnn50(ResultJS.pnn50, ExpectedIntervals)
    /\ (ParsedTS /\ Len(ExtractedTS) >= 2) =>
          IsExactPnn50(ResultTS.pnn50, ExtractedTS)

(* C8 amended.  The count is of differences strictly above 50 and the       *)
(* denominator is N - 1; the JavaScript result is that quotient, the        *)
(* TypeScript result is the quotient rounded to one decimal place.          *)
IsPnn50ToOneDecimal(p, rr) ==
    /\ p.t = "number"
    /\ IsNearestInteger(Mul(p, Int2Num(10)),
                        Num(1000 * NN50Count(rr), Len(rr) - 1))

C8_Pnn50 ==
    /\ (ParsedJS /\ Len(ExpectedIntervals) >= 2) =>
          IsExactPnn50(ResultJS.pnn50, ExpectedIntervals)
    /\ (ParsedTS /\ Len(ExtractedTS) >= 2) =>
          /\ IsPnn50ToOneDecimal(ResultTS.pnn50, ExtractedTS)
          /\ tsData.summary.pnn50 = ResultTS.pnn50

(* C8 witness: differences [50, 30, 80, 120] give 50.                       *)
C8_Witness ==
    /\ ParsedJS
    /\ ExpectedIntervals =
          <<Int2Num(800), Int2Num(850), Int2Num(820), Int2Num(900), Int2Num(780)>>
    /\ DiffAt(ExpectedIntervals, 1) = Int2Num(50)
    /\ NN50Count(ExpectedIntervals) = 2
    /\ ResultJS.pnn50 = Int2Num(50)

(* C9.  A constant sequence [x, ..., x] of N >= 2 valid intervals gives     *)
(* rmssd = sdnn = pnn50 = 0 and meanNN = minNN = maxNN = x.                 *)
IsConstant(rr) == Len(rr) >= 2 /\ \A i \in 1..Len(rr) : rr[i] = rr[1]

ConstantMetrics(m, x) ==
    /\ m.rmssd = Int2Num(0)
    /\ m.sdnn = Int2Num(0)
    /\ m.pnn50 = Int2Num(0)
    /\ m.meanNN = x
    /\ Field(m, "minNN") = x
    /\ Field(m, "maxNN") = x

C9_ConstantSequence ==
    /\ (ParsedJS /\ IsConstant(ExpectedIntervals)) =>
          ConstantMetrics(ResultJS, ExpectedIntervals[1])
    /\ (ParsedTS /\ IsConstant(ExtractedTS)) =>
          ConstantMetrics(ResultTS, ExtractedTS[1])

(* C9, JavaScript implementation alone.                                     *)
C9_ConstantSequenceJS ==
    (ParsedJS /\ IsConstant(ExpectedIntervals)) =>
        ConstantMetrics(ResultJS, ExpectedIntervals[1])

(* C10.  meanNN is the sum of the accepted intervals over their count,      *)
(* minNN and maxNN are the smallest and largest raw interval, and           *)
(* minNN <= meanNN <= maxNN (JavaScript result).                            *)
C10_MeanAndExtrema ==
    (ParsedJS /\ Len(ExpectedIntervals) >= 2) =>
        /\ IsMeanOf(ResultJS.meanNN, ExpectedIntervals)
        /\ IsMinOf(ResultJS.minNN, ExpectedIntervals)
        /\ IsMaxOf(ResultJS.maxNN, ExpectedIntervals)
        /\ ~Less(ResultJS.meanNN, ResultJS.minNN)
        /\ ~Less(ResultJS.maxNN, ResultJS.meanNN)

(* C10 witness: [800, 850, 820, 900, 780] gives meanNN = 830.               *)
C10_Witness ==
    /\ ParsedJS
    /\ ExpectedIntervals =
          <<Int2Num(800), Int2Num(850), Int2Num(820), Int2Num(900), Int2Num(780)>>
    /\ ResultJS.meanNN = Int2Num(830)
    /\ ResultJS.minNN = Int2Num(780)
    /\ ResultJS.maxNN = Int2Num(900)

(* The square of a reported root: of an exact root its square, of a root    *)
(* kept symbolically its radicand.                                          *)
SquareOfRoot(v) == IF v.t = "sqrt" THEN Num(v.n, v.d) ELSE Mul(v, v)

SumOfSquaredDeviations(rr) ==
    LET mean == DivInt(SumSeq(rr), Len(rr))
    IN  SumSeq([i \in 1..Len(rr) |-> Mul(Sub(rr[i], mean), Sub(rr[i], mean))])

(* s is the non-negative root with s * s * N = sum of (x - mean)^2.         *)
IsPopulationSd(s, rr) ==
    /\ s.t \in {"number", "sqrt"}
    /\ s.t = "number" => s.n >= 0
    /\ Mul(SquareOfRoot(s), Int2Num(Len(rr))) = SumOfSquaredDeviations(rr)

(* C11.  sdnn is the population standard deviation of the intervals         *)
(* (divisor N), reported without rounding, in both implementations.         *)
C11_PopulationSdnn ==
    /\ (ParsedJS /\ Len(ExpectedIntervals) >= 2) =>
          IsPopulationSd(ResultJS.sdnn, ExpectedIntervals)
    /\ (ParsedTS /\ Len(ExtractedTS) >= 2) =>
          IsPopulationSd(ResultTS.sdnn, ExtractedTS)

(* C11, JavaScript implementation alone.                                    *)
C11_PopulationSdnnJS ==
    (ParsedJS /\ Len(ExpectedIntervals) >= 2) =>
        IsPopulationSd(ResultJS.sdnn, ExpectedIntervals)

----------------------------------------------------------------------------
(* Normaliser and catalog properties.                                       *)

(* processMessages returned a structure (it did not raise).                 *)
ReturnedJS == ParsedJS /\ "groups" \in DOMAIN jsData
ReturnedTS == ParsedTS /\ "raw" \in DOMAIN tsData

(* The bundle's value for the known key k, under the decoder's name.        *)
BundleValue(k) == Field(messages, MesgsKey[k])

EveryKeyASequence(groups, keys) ==
    \A k \in keys :
        /\ k \in DOMAIN groups
        /\ groups[k].t = "array"
        /\ BundleValue(k).t # "array" => groups[k] = Arr(<<>>)

(* C12.  For every bundle, values that are not arrays included,             *)
(* processMessages returns a structure where every known key holds a        *)
(* sequence, the empty one for a missing key or a value that is no array.   *)
C12_EveryKeyASequence ==
    /\ ParsedJS =>
          ReturnedJS /\ EveryKeyASequence(jsData.groups, Range(GroupKeysJS))
    /\ ParsedTS =>
          ReturnedTS /\ EveryKeyASequence(tsData.raw, Range(GroupKeysTS))

(* C12 restricted to bundles whose values are arrays, null, 0 or missing.   *)
NoTruthyNonArray ==
    \A f \in DOMAIN messages :
        messages[f].t = "array" \/ messages[f] \in {Null, Int2Num(0)}

C12_EveryKeyASequenceOfArrays ==
    NoTruthyNonArray =>
        /\ ParsedJS =>
              ReturnedJS /\ EveryKeyASequence(jsData.groups, Range(GroupKeysJS))
        /\ ParsedTS =>
              ReturnedTS /\ EveryKeyASequence(tsData.raw, Range(GroupKeysTS))

(* A bundle that already has the shape of the normaliser's result: every    *)
(* known key present and holding a sequence.                                *)
IsNormalized(keys) ==
    \A k \in keys : k \in DOMAIN messages /\ messages[k].t = "array"

(* C13.  Idempotence: normalising an already normalised bundle returns it   *)
(* unchanged, group by group.                                               *)
C13_Idempotent ==
    /\ (ParsedJS /\ IsNormalized(Range(GroupKeysJS))) =>
          /\ ReturnedJS
          /\ \A k \in Range(GroupKeysJS) : jsData.groups[k] = messages[k]
    /\ (ParsedTS /\ IsNormalized(Range(GroupKeysTS))) =>
          /\ ReturnedTS
          /\ \A k \in Range(GroupKeysTS) : tsData.raw[k] = messages[k]

(* C13 for a bundle that holds every known type under the decoder's names:  *)
(* each group of the result is the bundle's sequence.                       *)
IsComplete(keys) ==
    \A k \in keys :
        MesgsKey[k] \in DOMAIN messages /\ messages[MesgsKey[k]].t = "array"

C13_GroupsKeptUnderDecoderNames ==
    /\ (ParsedJS /\ IsComplete(Range(GroupKeysJS))) =>
          /\ ReturnedJS
          /\ \A k \in Range(GroupKeysJS) : jsData.groups[k] = BundleValue(k)
    /\ (ParsedTS /\ IsComplete(Range(GroupKeysTS))) =>
          /\ ReturnedTS
          /\ \A k \in Range(GroupKeysTS) : tsData.raw[k] = BundleValue(k)

IsEmptyBundle == DOMAIN messages = {}

AllAbsent(summary) == \A f \in DOMAIN summary : IsAbsent(summary[f])

(* C14.  On the normalisation of an entirely empty bundle extractSummary    *)
(* does not raise and every field of the summary is absent, the count       *)
(* fields included.                                                         *)
C14_EmptyBundleAllAbsent ==
    /\ (ParsedJS /\ IsEmptyBundle) => ReturnedJS /\ AllAbsent(jsData.summary)
    /\ (ParsedTS /\ IsEmptyBundle) => ReturnedTS /\ AllAbsent(tsData.summary)

CountFieldsJS ==
    {"totalRecords", "totalLaps", "totalEvents", "hrvRecordCount",
     "respirationRecordCount"}
CountFieldsTS == {"totalRecords", "totalLaps", "totalSessions"}

AbsentButCounts(summary, counts) ==
    \A f \in DOMAIN summary :
        IF f \in counts THEN summary[f] = Int2Num(0) ELSE IsAbsent(summary[f])

(* C14 without the count fields: no raise, the count fields are 0 and       *)
(* every other field is absent.                                             *)
C14_EmptyBundleNoRaise ==
    /\ (ParsedJS /\ IsEmptyBundle) =>
          ReturnedJS /\ AbsentButCounts(jsData.summary, CountFieldsJS)
    /\ (ParsedTS /\ IsEmptyBundle) =>
          ReturnedTS /\ AbsentButCounts(tsData.summary, CountFieldsTS)

(* A descriptor of the JavaScript catalog against the normalised groups.    *)
DescriptorMatches(d, groups) ==
    /\ groups[d.key].t = "array"
    /\ Len(groups[d.key].a) > 0
    /\ d.count = Len(groups[d.key].a)
    /\ d.data = groups[d.key].a

(* The group a name of the TypeScript catalog stands for.                   *)
GroupOfName(name) ==
    LET i == CHOOSE j \in 1..Len(TypeMapTS) : TypeMapTS[j][1] = name
    IN  TypeMapTS[i][2]

(* An entry of the TypeScript catalog is a bare name, not a descriptor.     *)
IsBareName(entry) == entry \in STRING

(* C15.  The catalog holds no descriptor of an empty group, and each        *)
(* descriptor's count is the length of its group and its data the group's   *)
(* sequence, in both implementations.                                       *)
C15_CatalogCounts ==
    /\ ReturnedJS =>
          \A i \in 1..Len(jsData.availableDataTypes) :
              DescriptorMatches(jsData.availableDataTypes[i], jsData.groups)
    /\ ReturnedTS =>
          \A i \in 1..Len(tsData.availableDataTypes) :
              /\ ~IsBareName(tsData.availableDataTypes[i])
              /\ DescriptorMatches(tsData.availableDataTypes[i], tsData.raw)

(* C15 as far as each implementation goes: the JavaScript descriptors match *)
(* their groups; the TypeScript names are names of non-empty groups.        *)
C15_CatalogOfNonEmptyGroups ==
    /\ ReturnedJS =>
          \A i \in 1..Len(jsData.availableDataTypes) :
              DescriptorMatches(jsData.availableDataTypes[i], jsData.groups)
    /\ ReturnedTS =>
          \A i \in 1..Len(tsData.availableDataTypes) :
              LET group == tsData.raw[GroupOfName(tsData.availableDataTypes[i])]
              IN  group.t = "array" /\ Len(group.a) > 0

(* The keys of dataTypeConfig in their order, and of the catalog.           *)
ConfigKeys == [i \in 1..Len(DataTypeConfig) |-> DataTypeConfig[i][1]]

CatalogKeysJS ==
    [i \in 1..Len(jsData.availableDataTypes) |-> jsData.availableDataTypes[i].key]

NonEmptyGroupJS(k) ==
    jsData.groups[k].t = "array" /\ Len(jsData.groups[k].a) > 0

(* C16.  The catalog is the priority list restricted to the non-empty       *)
(* groups, and every non-empty group of the normalised structure has        *)
(* exactly one descriptor (JavaScript implementation).                      *)
C16_CatalogIsPriorityList ==
    ReturnedJS =>
        /\ CatalogKeysJS = SelectSeq(ConfigKeys, NonEmptyGroupJS)
        /\ \A k \in Range(GroupKeysJS) :
              NonEmptyGroupJS(k) => Count(CatalogKeysJS, k) = 1

(* C16 for the groups that dataTypeConfig lists.                            *)
C16_CatalogOfConfiguredGroups ==
    ReturnedJS =>
        /\ CatalogKeysJS = SelectSeq(ConfigKeys, NonEmptyGroupJS)
        /\ \A k \in Range(ConfigKeys) :
              NonEmptyGroupJS(k) => Count(CatalogKeysJS, k) = 1
        /\ SubSeq(ConfigKeys, 1, 4) = <<"session", "lap", "record", "event">>

----------------------------------------------------------------------------
(* Respiration and minimum properties.                                      *)

RespirationAliases ==
    <<"respirationRate", "enhancedRespirationRate", "respiratoryRate",
      "breathsPerMinute">>

(* The first value of a record, in alias order, that is not null.           *)
FirstAliasValue(r) ==
    LET present == SelectSeq(RespirationAliases,
                             LAMBDA a : IsPresentValue(Field(r, a)))
    IN  IF present = <<>> THEN Undefined ELSE r[present[1]]

(* The pool: one value per record that has one, then the respirationRate of *)
(* the dedicated messages.                                                  *)
MessageRespirationRates ==
    LET msgs == InputGroup("respirationRateMesgs")
    IN  SelectSeq([i \in 1..Len(msgs) |-> Field(msgs[i], "respirationRate")],
                  IsPresentValue)

ExpectedPool ==
    LET records == InputGroup("recordMesgs")
    IN  SelectSeq([i \in 1..Len(records) |-> FirstAliasValue(records[i])],
                  IsPresentValue)
        \o MessageRespirationRates

PositiveOf(vals) == SelectSeq(vals, IsPositiveNumber)

SessionRespirationFields ==
    {"avgRespirationRate", "enhancedAvgRespirationRate", "maxRespirationRate",
     "enhancedMaxRespirationRate", "minRespirationRate",
     "enhancedMinRespirationRate"}

NoSessionRespiration ==
    \A f \in SessionRespirationFields : ~IsPresentValue(Field(InputSession, f))

(* The respiration statistics of a summary are those of the pool; the       *)
(* minimum is taken over the positive values of the pool (C18).             *)
PooledRespirationIn(summary) ==
    /\ Field(summary, "respirationRecordCount") = Int2Num(Len(ExpectedPool))
    /\ ExpectedPool # <<>> =>
          /\ IsMeanOf(summary.avgRespirationRate, ExpectedPool)
          /\ IsMaxOf(summary.maxRespirationRate, ExpectedPool)
    /\ PositiveOf(ExpectedPool) # <<>> =>
          IsMinOf(summary.minRespirationRate, PositiveOf(ExpectedPool))

(* C17.  Respiration pooling: without a session aggregate, the respiration  *)
(* statistics and respirationRecordCount are those of the pool of the       *)
(* records' first non-null alias and the messages' respirationRate.         *)
C17_RespirationPool ==
    /\ (ReturnedJS /\ NoSessionRespiration) => PooledRespirationIn(jsData.summary)
    /\ (ReturnedTS /\ NoSessionRespiration) => PooledRespirationIn(tsData.summary)

(* C17, JavaScript implementation alone.                                    *)
C17_RespirationPoolJS ==
    (ReturnedJS /\ NoSessionRespiration) => PooledRespirationIn(jsData.summary)

(* The samples a minimum is computed from, and whether the session leaves   *)
(* the minimum to them.                                                     *)
NoSessionValue(fields) ==
    \A f \in fields : ~IsPositiveNumber(Field(InputSession, f))

SmallestPositiveIs(v, samples) ==
    PositiveOf(samples) # <<>> => IsMinOf(v, PositiveOf(samples))

MinOverPositiveJS ==
    /\ NoSessionValue({"minHeartRate"}) =>
          SmallestPositiveIs(jsData.summary.minHeartRate,
                             InputRecordValues("heartRate"))
    /\ NoSessionValue({"minTemperature"}) =>
          SmallestPositiveIs(jsData.summary.minTemperature,
                             InputRecordValues("temperature"))
    /\ NoSessionValue({"minRespirationRate", "enhancedMinRespirationRate"}) =>
          SmallestPositiveIs(jsData.summary.minRespirationRate, ExpectedPool)

MinOverPositiveTS ==
    /\ NoSessionValue({"avgHeartRate"}) =>
          SmallestPositiveIs(tsData.summary.minHeartRate,
                             InputRecordValues("heartRate"))
    /\ SmallestPositiveIs(tsData.summary.minRespirationRate,
                          MessageRespirationRates)

(* C18.  A minimum computed from samples of which one is > 0 is the         *)
(* smallest sample > 0: a sample that is 0 or negative is never reported.   *)
C18_MinOverPositive ==
    /\ ReturnedJS => MinOverPositiveJS
    /\ ReturnedTS => MinOverPositiveTS

(* C18, JavaScript implementation alone.                                    *)
C18_MinOverPositiveJS == ReturnedJS => MinOverPositiveJS

NoPositive(samples) == samples # <<>> /\ PositiveOf(samples) = <<>>

MinAbsentWithoutPositiveJS ==
    /\ (NoSessionValue({"minHeartRate"})
           /\ NoPositive(InputRecordValues("heartRate"))) =>
          IsAbsent(jsData.summary.minHeartRate)
    /\ (NoSessionValue({"minTemperature"})
           /\ NoPositive(InputRecordValues("temperature"))) =>
          IsAbsent(jsData.summary.minTemperature)
    /\ (NoSessionValue({"minRespirationRate", "enhancedMinRespirationRate"})
           /\ NoPositive(ExpectedPool)) =>
          IsAbsent(jsData.summary.minRespirationRate)

(* C19.  A minimum to be computed from samples of which none is > 0 is      *)
(* absent: never Infinity, NaN, 0 or negative.                              *)
C19_MinAbsentWithoutPositive ==
    /\ ReturnedJS => MinAbsentWithoutPositiveJS
    /\ (ReturnedTS /\ NoSessionValue({"avgHeartRate"})
           /\ NoPositive(InputRecordValues("heartRate"))) =>
          IsAbsent(tsData.summary.minHeartRate)

(* What the JavaScript implementation reports in the case of C19: Infinity. *)
C19_InfinityWithoutPositiveJS ==
    ReturnedJS =>
        /\ (NoSessionValue({"minHeartRate"})
               /\ NoPositive(InputRecordValues("heartRate"))) =>
              jsData.summary.minHeartRate = Infinity
        /\ (NoSessionValue({"minTemperature"})
               /\ NoPositive(InputRecordValues("temperature"))) =>
              jsData.summary.minTemperature = Infinity
        /\ (NoSessionValue({"minRespirationRate", "enhancedMinRespirationRate"})
               /\ NoPositive(ExpectedPool)) =>
              jsData.summary.minRespirationRate = Infinity

----------------------------------------------------------------------------
(* Derived pace.                                                            *)

(* avgPace is there exactly when avgSpeed is a number > 0, and then         *)
(* avgPace * avgSpeed * 60 = 1000.                                          *)
PaceMatches(summary) ==
    LET avgSpeed == Field(summary, "avgSpeed")
        avgPace == Field(summary, "avgPace")
    IN  IF IsPositiveNumber(avgSpeed)
        THEN /\ avgPace.t = "number"
             /\ Mul(Mul(avgPace, avgSpeed), Int2Num(60)) = Int2Num(1000)
        ELSE IsAbsent(avgPace)

(* C20.  The summary has avgPace exactly when its avgSpeed is > 0, with     *)
(* avgPace * avgSpeed * 60 = 1000; otherwise avgPace is absent.             *)
C20_AvgPace ==
    /\ ParsedJS => PaceMatches(jsData.summary)
    /\ ParsedTS => PaceMatches(tsData.summary)

(* C20, TypeScript implementation alone.                                    *)
C20_AvgPaceTS == ParsedTS => PaceMatches(tsData.summary)

----------------------------------------------------------------------------
(* Session aggregates whose value is 0.                                     *)

ZeroSessionReportedIn(summary) ==
    \A f \in SessionAggregateFields :
        Field(InputSession, f) = Int2Num(0) =>
            Field(summary, f) = Int2Num(0)

(* C21.  A session aggregate that is present with the value 0 is reported   *)
(* as 0 by extractSummary in both implementations: the record-derived       *)
(* statistic replaces the session field only when that is missing or null.  *)
C21_ZeroSessionReported ==
    /\ ReturnedJS => ZeroSessionReportedIn(jsData.summary)
    /\ ReturnedTS => ZeroSessionReportedIn(tsData.summary)

(* C21 without records to fall back on: the 0 of the session is never       *)
(* replaced by another number.                                              *)
C21_ZeroSessionWithoutRecords ==
    (ReturnedTS /\ InputGroup("recordMesgs") = <<>>) =>
        \A f \in SessionAggregateFields :
            Field(InputSession, f) = Int2Num(0) =>
                Field(tsData.summary, f).t # "number"
                    \/ Field(tsData.summary, f) = Int2Num(0)

----------------------------------------------------------------------------
(* The tab of a data type.  App.handleDataTypeTab reads the group of the    *)
(* parsed data under the tab's identifier and shows the 'no data available' *)
(* message when there is none or it is empty.                               *)

TabData(currentData, tabId) == Field(currentData.raw, tabId)

ShowsNoData(data) == ~Truthy(data) \/ Length(data) = Int2Num(0)

(* C29.  Every identifier of availableDataTypes names a non-empty group of  *)
(* the parsed data under that same identifier, so its tab never shows the   *)
(* 'no data available' message.                                             *)
C29_CatalogNamesRawGroups ==
    ReturnedTS =>
        \A i \in 1..Len(tsData.availableDataTypes) :
            LET data == TabData(tsData, tsData.availableDataTypes[i])
            IN  /\ IsArray(data)
                /\ Len(data.a) > 0
                /\ ~ShowsNoData(data)

(* The names of typeMap that are not keys of the raw data.                  *)
PluralNames == {"sessions", "laps", "records", "events"}

(* C29 for the other names: each names its own non-empty group; a plural    *)
(* name reads no group at all.                                              *)
C29_SingularNamesRawGroups ==
    ReturnedTS =>
        \A i \in 1..Len(tsData.availableDataTypes) :
            LET id == tsData.availableDataTypes[i]
                data == TabData(tsData, id)
            IN  IF id \in PluralNames
                THEN data = Undefined /\ ShowsNoData(data)
                ELSE IsArray(data) /\ Len(data.a) > 0 /\ ~ShowsNoData(data)

----------------------------------------------------------------------------
(* The TypeScript application: the StateStore, the components subscribed   *)
(* to it and the handlers that dispatch to it.  JavaScript runs a handler   *)
(* to its end before the next one starts, so each handler below is one      *)
(* step; the awaits of handleFile split it in two.                          *)

Str(s) == [t |-> "string", s |-> s]

(* How many calls of dispatch may be nested before the engine raises        *)
(* RangeError (maximum call stack size exceeded), and how many handleFile   *)
(* invocations and comparison entries a run of the model holds.             *)
MaxStackDepth == 3
MaxUploads == 2
MaxComparisons == 1

ActionTypes ==
    {"SET_LOADING", "SET_ERROR", "SET_DATA", "SET_LANGUAGE", "SET_ACTIVE_TAB",
     "ADD_COMPARISON_DATA", "REMOVE_COMPARISON_DATA", "CLEAR_COMPARISON_DATA",
     "ADD_UPLOADED_FILE", "RESET"}

getInitialState ==
    [currentData |-> Null,
     isLoading |-> FALSE,
     error |-> Null,
     selectedLanguage |-> "en",
     activeTab |-> "overview",
     comparisonData |-> <<>>,
     uploadedFiles |-> <<>>]

(* localStorage holds nothing (null) or the saved object.                   *)
saveToStorage(st) == [selectedLanguage |-> st.selectedLanguage]

loadFromStorage(st, savedState) ==
    IF savedState = Null THEN st
    ELSE [st EXCEPT !.selectedLanguage =
                        IF savedState.selectedLanguage = "" THEN "en"
                        ELSE savedState.selectedLanguage]

(* The action creators: each returns its type with its argument as the      *)
(* payload (clearComparisonData and reset have none, which reads as         *)
(* undefined); addUploadedFile builds the payload from the file.            *)
actions(type, payload) == [type |-> type, payload |-> payload]

addUploadedFile(file) ==
    actions("ADD_UPLOADED_FILE",
            [file |-> file, name |-> file.name, size |-> file.size,
             type |-> file.type])

(* The case SET_ERROR of the switch of dispatch, and a variant of it that   *)
(* leaves isLoading as it is.                                               *)
SetErrorKeepingLoading(st, payload) == [st EXCEPT !.error = payload]

SetError(st, payload) == [st EXCEPT !.error = payload, !.isLoading = FALSE]

(* The switch of dispatch, for the known types.  REMOVE_COMPARISON_DATA is  *)
(* comparisonData.filter((_, index) => index !== payload), indices from 0.  *)
Reduce(st, action) ==
    LET payload == action.payload
        old == st.comparisonData
        kept == {j \in 1..Len(old) : j - 1 # payload}
    IN  CASE action.type = "SET_LOADING" -> [st EXCEPT !.isLoading = payload]
          [] action.type = "SET_ERROR" -> SetError(st, payload)
          [] action.type = "SET_DATA" ->
                [st EXCEPT !.currentData = payload, !.isLoading = FALSE,
                           !.error = Null]
          [] action.type = "SET_LANGUAGE" ->
                [st EXCEPT !.selectedLanguage = payload]
          [] action.type = "SET_ACTIVE_TAB" -> [st EXCEPT !.activeTab = payload]
          [] action.type = "ADD_COMPARISON_DATA" ->
                [st EXCEPT !.comparisonData = Append(@, payload)]
          [] action.type = "REMOVE_COMPARISON_DATA" ->
                [st EXCEPT !.comparisonData =
                    [j \in 1..Cardinality(kept) |->
                        IF j - 1 < payload \/ payload < 0
                        THEN old[j] ELSE old[j + 1]]]
          [] action.type = "CLEAR_COMPARISON_DATA" ->
                [st EXCEPT !.comparisonData = <<>>]
          [] action.type = "ADD_UPLOADED_FILE" ->
                [st EXCEPT !.uploadedFiles = Append(@, payload)]
          [] action.type = "RESET" -> getInitialState

(* The store together with what its subscribers act on: c.state,            *)
(* c.storage, c.view, c.calls (the dispatch call being made: the            *)
(* subscribers it has called and whether it has returned or has raised)     *)
(* and c.uploads (the arrays the parsed data refers to).                    *)

(* The subscribers in the order of their registration by App.init: the     *)
(* components of initComponents, then App itself.  Overview and RawJSON     *)
(* are not among them: initializeTabComponents constructs them only if      *)
(* their panels exist, and the panels are rendered by Tabs once there is    *)
(* data.  The callback a DataTable registers does nothing.                  *)
Subscribers ==
    <<"Header", "UploadZone", "Loading", "ErrorMessage", "SummaryCards",
      "Tabs", "App">>

(* The default branch of dispatch: a warning, and return before the         *)
(* subscribers are notified.  The variant notifies them as the other        *)
(* branches do.                                                             *)
UnknownActionNotifying(c) ==
    [c EXCEPT !.calls.notified = {Subscribers[k] : k \in 1..Len(Subscribers)}]

UnknownAction(c) == c

(* Tabs.generateTabs: the identifiers of the tabs.                          *)
generateTabs(dataTypes) ==
    <<"overview">>
    \o (IF \E i \in 1..Len(dataTypes) : dataTypes[i] \in {"hrv", "hrvValue"}
        THEN <<"hrv-analysis">> ELSE <<>>)
    \o SelectSeq(dataTypes, LAMBDA type : type \notin {"hrv", "hrvValue"})
    \o <<"raw-json">>

(* The parsed data with its raw groups read through the reference to the    *)
(* arrays of the decoder.                                                   *)
RawGroups(c, currentData) ==
    [k \in Range(GroupKeysTS) |->
        GroupOrEmpty(c.uploads[currentData.raw].messages, k)]

(* App.updateUI, with updateFileInfoBar.                                    *)
updateUI(c) ==
    LET uploadedFiles == c.state.uploadedFiles
        fileInfo == IF Len(uploadedFiles) > 0
                    THEN Str(uploadedFiles[Len(uploadedFiles)].name)
                    ELSE Null
    IN  IF c.state.currentData # Null
        THEN [c EXCEPT !.view.fileInfo = fileInfo,
                       !.view.viewer = TRUE,
                       !.view.uploadZone = FALSE]
        ELSE [c EXCEPT !.view.viewer = FALSE, !.view.uploadZone = TRUE]

(* App.handleDataTypeTab: the panel of the tab gets a DataTable on the      *)
(* group of the parsed data named by the tab, or the no-data message.  The  *)
(* table keeps the array it is given (DataTable.setData), named here by     *)
(* the upload that decoded it and the key of the group.                     *)
handleDataTypeTab(c, tabId) ==
    LET tabs == c.view.tabs
        hasPanelContent ==
            \/ tabId \in Range(tabs) \ {"hrv-analysis", "raw-json"}
            \/ tabId = "hrv" /\ "hrv-analysis" \in Range(tabs)
            \/ tabId = "json" /\ "raw-json" \in Range(tabs)
    IN  IF \/ ~hasPanelContent
           \/ \E table \in c.view.tables : table.tab = tabId
        THEN c
        ELSE IF c.state.currentData = Null
        THEN [c EXCEPT !.view.noData = @ \cup {tabId}]
        ELSE LET data == Field(RawGroups(c, c.state.currentData), tabId)
             IN  IF ShowsNoData(data)
                 THEN [c EXCEPT !.view.noData = @ \cup {tabId}]
                 ELSE [c EXCEPT !.view.tables = @ \cup
                          {[tab |-> tabId, upload |-> c.state.currentData.raw]}]

(* The listener of 'tabChanged' of App.                                     *)
tabChanged(c, tabId) ==
    IF tabId \in {"hrv-analysis", "overview", "raw-json"} THEN c
    ELSE handleDataTypeTab(c, tabId)

(* dispatch, notifySubscribers and the subscriber of Tabs, which calls      *)
(* switchTab, which dispatches.  depth counts the calls of dispatch on the  *)
(* stack; one more than MaxStackDepth raises RangeError, which no frame     *)
(* below catches: every pending call is abandoned where it stands.          *)
RECURSIVE dispatch(_, _, _)
RECURSIVE notifySubscribers(_, _, _)
RECURSIVE switchTab(_, _, _)
RECURSIVE TabsSubscriber(_, _)

(* switchTab ends by dispatching a 'tabChanged' event on the container of   *)
(* Tabs; the event does not bubble, so the listener App registered on its   *)
(* own container is not called by it.                                       *)
switchTab(c, tabId, depth) ==
    IF tabId = "" THEN c
    ELSE dispatch(c, actions("SET_ACTIVE_TAB", tabId), depth + 1)

TabsSubscriber(c, depth) ==
    IF c.state.currentData # Null
    THEN LET rendered ==
                 [c EXCEPT !.view.tabs =
                               generateTabs(c.state.currentData.availableDataTypes),
                           !.view.tables = {},
                           !.view.noData = {}]
         IN  IF c.state.activeTab # ""
             THEN switchTab(rendered, c.state.activeTab, depth)
             ELSE rendered
    ELSE [c EXCEPT !.view.tabs = <<>>, !.view.tables = {}, !.view.noData = {}]

(* The callback each component registered with store.subscribe: Header,     *)
(* UploadZone, Loading, ErrorMessage and SummaryCards only draw.            *)
Callback(name, c, depth) ==
    CASE name = "Header" ->
            [c EXCEPT !.view.language = c.state.selectedLanguage]
      [] name = "UploadZone" ->
            [c EXCEPT !.view.uploadZone = (c.state.currentData = Null)]
      [] name = "Loading" -> [c EXCEPT !.view.loading = c.state.isLoading]
      [] name = "ErrorMessage" ->
            IF c.state.error # Null
            THEN [c EXCEPT !.view.error = c.state.error]
            ELSE [c EXCEPT !.view.error = Null]
      [] name = "SummaryCards" ->
            [c EXCEPT !.view.cards = (c.state.currentData # Null)]
      [] name = "Tabs" -> TabsSubscriber(c, depth)
      [] name = "App" -> updateUI(c)

notifySubscribers(c, k, depth) ==
    IF k > Len(Subscribers) THEN c
    ELSE LET called ==
                 Callback(Subscribers[k],
                          [c EXCEPT !.calls.notified = @ \cup {Subscribers[k]}],
                          depth)
         IN  IF called.calls.returned
             THEN notifySubscribers(called, k + 1, depth)
             ELSE called

(* SET_LANGUAGE and RESET end with saveToStorage().                         *)
dispatch(c, action, depth) ==
    LET entered == IF depth = 1
                   THEN [c EXCEPT !.calls = [notified |-> {},
                                             returned |-> TRUE]]
                   ELSE c
    IN  IF depth > MaxStackDepth THEN [c EXCEPT !.calls.returned = FALSE]
        ELSE IF action.type \notin ActionTypes THEN UnknownAction(entered)
        ELSE LET reduced == Reduce(entered.state, action)
             IN  notifySubscribers(
                     [entered EXCEPT
                         !.state = reduced,
                         !.storage = IF action.type \in {"SET_LANGUAGE", "RESET"}
                                     THEN saveToStorage(reduced) ELSE @],
                     1, depth)

----------------------------------------------------------------------------
(* Files.  content is what the decoder reads from the file: the bundle, or  *)
(* NotFIT for bytes that decoder.isFIT() rejects.                           *)

NotFIT == [t |-> "notFIT"]

RideBundle ==
    BundleOf([sessionMesgs |-> <<[avgHeartRate |-> Int2Num(150)]>>,
              deviceInfoMesgs |->
                  <<[deviceIndex |-> Int2Num(1), serialNumber |-> Int2Num(7),
                     productName |-> Str("watch")],
                    [deviceIndex |-> Int2Num(0),
                     productName |-> Str("strap")]>>])

WalkBundle ==
    BundleOf([recordMesgs |-> <<[heartRate |-> Int2Num(100)]>>,
              stressLevelMesgs |->
                  <<[stressLevelValue |-> Int2Num(20)],
                    [stressLevelValue |-> Int2Num(35)]>>])

FileSizeLimit == 50 * 1024 * 1024

Files ==
    {[name |-> "ride", extension |-> "fit", size |-> 2048, type |-> "",
      content |-> RideBundle],
     [name |-> "walk", extension |-> "FIT", size |-> 1024, type |-> "",
      content |-> WalkBundle],
     [name |-> "photo", extension |-> "fit", size |-> 512, type |-> "",
      content |-> NotFIT],
     [name |-> "notes", extension |-> "txt", size |-> 100, type |-> "",
      content |-> NotFIT],
     [name |-> "huge", extension |-> "fit", size |-> FileSizeLimit + 1,
      type |-> "", content |-> RideBundle]}

(* file.name.toLowerCase().endsWith('.fit'), on the extension of the name.  *)
isValidFitFile(file) ==
    LET toLowerCase == IF file.extension = "FIT" THEN "fit"
                       ELSE IF file.extension = "TXT" THEN "txt"
                       ELSE file.extension
    IN  toLowerCase = "fit"

validateFile(file) ==
    IF ~isValidFitFile(file)
    THEN [valid |-> FALSE, error |-> Str("Please upload a .FIT file")]
    ELSE IF file.size > FileSizeLimit
    THEN [valid |-> FALSE, error |-> Str("File size exceeds 50MB limit")]
    ELSE [valid |-> TRUE, error |-> Undefined]

(* The error of the try block of handleFile, Null when there is none:       *)
(* parseFitFile throws for bytes that are not a FIT file.                   *)
ReadError(file) ==
    IF file.content = NotFIT THEN Str("Not a valid FIT file") ELSE Null

(* The message of the catch block: the translated text with the error.      *)
ParsingError(error) == [t |-> "string", s |-> "errorParsingFile", error |-> error]

(* What parseFitFile returns for the bundle decoded by upload i: the        *)
(* summary, the catalog and raw, whose groups are the decoder's own arrays. *)
FitDataOf(i, bundle) ==
    [processMessagesTS(bundle) EXCEPT !.raw = i]

----------------------------------------------------------------------------
(* DataTable.sortByColumn: Array.prototype.sort with the comparator of the  *)
(* table, in place.  The sort is stable; the columns of the bundles above   *)
(* hold at most one null or undefined value, for which the comparator is    *)
(* consistent.  localeCompare orders the strings of the bundles by the      *)
(* alphabet.                                                                *)

CompareCells(aVal, bVal) ==
    LET collation == <<"strap", "watch">>
        rank(v) == CHOOSE i \in 1..Len(collation) : collation[i] = v.s
    IN  IF IsNullish(aVal) THEN 1
        ELSE IF IsNullish(bVal) THEN -1
        ELSE IF IsNumber(aVal) /\ IsNumber(bVal)
        THEN (IF Less(aVal, bVal) THEN -1
              ELSE IF Less(bVal, aVal) THEN 1 ELSE 0)
        ELSE rank(aVal) - rank(bVal)

RECURSIVE InsertRow(_, _, _)
InsertRow(row, sorted, column) ==
    IF sorted = <<>> THEN <<row>>
    ELSE IF CompareCells(Field(Head(sorted), column), Field(row, column)) > 0
    THEN <<row>> \o sorted
    ELSE <<Head(sorted)>> \o InsertRow(row, Tail(sorted), column)

RECURSIVE SortedRows(_, _)
SortedRows(rows, column) ==
    IF rows = <<>> THEN <<>>
    ELSE InsertRow(rows[Len(rows)],
                   SortedRows(SubSeq(rows, 1, Len(rows) - 1), column), column)

----------------------------------------------------------------------------
(* The application as a state machine.                                      *)

Languages == {"en", "es"}

StoredItems ==
    {Null, [selectedLanguage |-> "es"], [selectedLanguage |-> ""]}

(* What the components show once App has constructed them and has called    *)
(* updateUI on the initial state.                                           *)
InitialView(st) ==
    [language |-> st.selectedLanguage,
     uploadZone |-> TRUE,
     loading |-> FALSE,
     error |-> Null,
     cards |-> FALSE,
     tabs |-> <<>>,
     tables |-> {},
     noData |-> {},
     viewer |-> FALSE,
     fileInfo |-> Null]

InitApp ==
    /\ storage \in StoredItems
    /\ state = loadFromStorage(getInitialState, storage)
    /\ view = InitialView(state)
    /\ calls = [notified |-> {}, returned |-> TRUE]
    /\ uploads = <<>>
    /\ messages = <<>>
    /\ jsData = Null
    /\ tsData = Null

Current ==
    [state |-> state, storage |-> storage, view |-> view, calls |-> calls,
     uploads |-> uploads]

Commit(c) ==
    /\ state' = c.state
    /\ storage' = c.storage
    /\ view' = c.view
    /\ calls' = c.calls

(* UploadZone.handleFile up to its first await: validation, and for a file  *)
(* that passes ADD_UPLOADED_FILE and SET_LOADING(true).  A dispatch that    *)
(* raises ends the invocation there.  The invocation is recorded with the   *)
(* invocations that are still at their awaits when it starts (during).      *)
handleFile(file) ==
    /\ LET validation == validateFile(file)
           added == dispatch(Current, addUploadedFile(file), 1)
           loading == dispatch(added, actions("SET_LOADING", TRUE), 1)
           reading == {j \in 1..Len(uploads) : uploads[j].pc = "reading"}
       IN  IF ~validation.valid
           THEN /\ Commit(dispatch(Current,
                                   actions("SET_ERROR",
                                           Or(validation.error,
                                              Str("Invalid file"))), 1))
                /\ UNCHANGED uploads
           ELSE /\ Len(uploads) < MaxUploads
                /\ Len(state.uploadedFiles) < MaxUploads
                /\ IF ~added.calls.returned
                   THEN Commit(added) /\ UNCHANGED uploads
                   ELSE /\ Commit(loading)
                        /\ uploads' =
                              IF loading.calls.returned
                              THEN Append(uploads,
                                          [file |-> file, pc |-> "reading",
                                           messages |-> Null,
                                           during |-> reading])
                              ELSE uploads
    /\ UNCHANGED parserVars

(* handleFile from its awaits on: the file has been read and parsed, or     *)
(* the parse has failed.  SET_DATA on success; the catch block dispatches   *)
(* SET_ERROR for an error of the try block, the RangeError raised by the    *)
(* dispatch of SET_DATA included.                                           *)
handleFileSettled(i) ==
    /\ i \in 1..Len(uploads)
    /\ uploads[i].pc = "reading"
    /\ LET file == uploads[i].file
           failure == ReadError(file)
           decoded == [uploads EXCEPT ![i].pc = "done",
                                      ![i].messages = file.content]
           stored == dispatch([Current EXCEPT !.uploads = decoded],
                              actions("SET_DATA", FitDataOf(i, file.content)),
                              1)
           rangeError == Str("Maximum call stack size exceeded")
       IN  IF failure # Null
           THEN /\ Commit(dispatch(Current,
                                   actions("SET_ERROR", ParsingError(failure)),
                                   1))
                /\ uploads' = [uploads EXCEPT ![i].pc = "done"]
           ELSE /\ uploads' = decoded
                /\ IF stored.calls.returned
                   THEN Commit(stored)
                   ELSE Commit(dispatch(stored,
                                        actions("SET_ERROR",
                                                ParsingError(rangeError)), 1))
    /\ UNCHANGED parserVars

(* The close button of ErrorMessage.                                        *)
closeError ==
    /\ Commit(dispatch([Current EXCEPT !.view.error = Null],
                       [type |-> "SET_ERROR", payload |-> Null], 1))
    /\ UNCHANGED <<uploads, parserVars>>

(* A language option of Header.                                             *)
selectLanguage(lang) ==
    /\ lang # state.selectedLanguage
    /\ LET dispatched == dispatch(Current, actions("SET_LANGUAGE", lang), 1)
       IN  Commit(IF dispatched.calls.returned
                  THEN [dispatched EXCEPT !.view.language = lang]
                  ELSE dispatched)
    /\ UNCHANGED <<uploads, parserVars>>

(* A click on the button of a tab.                                          *)
clickTab(tabId) ==
    /\ tabId \in Range(view.tabs)
    /\ Commit(switchTab(Current, tabId, 0))
    /\ UNCHANGED <<uploads, parserVars>>

(* A 'tabChanged' event dispatched on the container of App: the listener   *)
(* of setupGlobalEventListeners runs with the tab the event names.          *)
TabIds ==
    {"overview", "hrv-analysis", "raw-json", "sessions", "records",
     "deviceInfo", "stressLevel"}

tabChangedEvent(tabId) ==
    /\ Commit(tabChanged(Current, tabId))
    /\ UNCHANGED <<uploads, parserVars>>

(* A click on the sort button of a column of a table; the columns are       *)
(* Object.keys of the rows (extractColumns).                                *)
sortByColumn(table, column) ==
    /\ table \in view.tables
    /\ LET key == MesgsKey[table.tab]
           data == uploads[table.upload].messages[key].a
       IN  /\ column \in UNION {DOMAIN data[i] : i \in 1..Len(data)}
           /\ uploads' = [uploads EXCEPT
                             ![table.upload].messages[key].a =
                                 SortedRows(data, column)]
    /\ UNCHANGED <<state, storage, view, calls, parserVars>>

(* App.resetApp ('Upload another file').                                    *)
resetApp ==
    /\ LET dispatched == dispatch(Current, actions("RESET", Undefined), 1)
       IN  Commit(IF dispatched.calls.returned
                  THEN [dispatched EXCEPT !.view.uploadZone = TRUE,
                                          !.view.tables = {}]
                  ELSE dispatched)
    /\ UNCHANGED <<uploads, parserVars>>

NextApp ==
    \/ \E file \in Files : handleFile(file)
    \/ \E i \in 1..MaxUploads : handleFileSettled(i)
    \/ closeError
    \/ \E lang \in Languages : selectLanguage(lang)
    \/ \E tabId \in TabIds : clickTab(tabId)
    \/ \E tabId \in TabIds : tabChangedEvent(tabId)
    \/ \E table \in view.tables :
          \E column \in {"deviceIndex", "serialNumber", "productName",
                         "stressLevelValue"} : sortByColumn(table, column)
    \/ resetApp

SpecApp == InitApp /\ [][NextApp]_vars

(* The upload path on its own: the handlers that dispatch SET_LOADING,      *)
(* SET_DATA, SET_ERROR and RESET.  The reads and the parse that handleFile  *)
(* awaits settle: the FileReader calls onload or onerror, the import        *)
(* resolves, the decoder returns.  The fairness condition is on the steps   *)
(* of handleFileSettled(i), written by what they do to uploads[i].          *)
NextUpload ==
    \/ \E file \in Files : handleFile(file)
    \/ \E i \in 1..MaxUploads : handleFileSettled(i)
    \/ closeError
    \/ resetApp

SpecAppFair ==
    /\ InitApp
    /\ [][NextUpload]_vars
    /\ \A i \in 1..MaxUploads :
          WF_uploads(/\ i \in 1..Len(uploads)
                     /\ uploads[i].pc = "reading"
                     /\ uploads' =
                           [uploads EXCEPT
                              ![i].pc = "done",
                              ![i].messages =
                                 IF ReadError(uploads[i].file) # Null THEN Null
                                 ELSE uploads[i].file.content])

----------------------------------------------------------------------------
(* The store on its own: dispatch called with actions of every type, and    *)
(* of a type it does not know, with the components of App subscribed.       *)

StoreActions ==
    LET ride == FitDataOf(1, RideBundle)
        rideFile == CHOOSE file \in Files : file.name = "ride"
    IN  {actions("SET_LOADING", TRUE), actions("SET_LOADING", FALSE),
         actions("SET_ERROR", Str("Invalid file")), actions("SET_ERROR", Null),
         actions("SET_DATA", ride),
         actions("SET_LANGUAGE", "en"), actions("SET_LANGUAGE", "es"),
         actions("SET_ACTIVE_TAB", "overview"),
         actions("SET_ACTIVE_TAB", "raw-json"),
         actions("REMOVE_COMPARISON_DATA", 0),
         actions("CLEAR_COMPARISON_DATA", Undefined),
         actions("RESET", Undefined),
         actions("SET_THEME", "dark")}
            \cup (IF Len(state.comparisonData) < MaxComparisons
                  THEN {actions("ADD_COMPARISON_DATA", ride)} ELSE {})
            \cup (IF Len(state.uploadedFiles) < MaxUploads
                  THEN {addUploadedFile(rideFile)} ELSE {})

NextStore ==
    \E action \in StoreActions :
        /\ Commit(dispatch(Current, action, 1))
        /\ UNCHANGED <<uploads, parserVars>>

InitStore ==
    /\ storage \in StoredItems
    /\ state = loadFromStorage(getInitialState, storage)
    /\ view = InitialView(state)
    /\ calls = [notified |-> {}, returned |-> TRUE]
    /\ uploads = <<[file |-> CHOOSE file \in Files : file.name = "ride",
                    pc |-> "done", messages |-> RideBundle, during |-> {}]>>
    /\ messages = <<>>
    /\ jsData = Null
    /\ tsData = Null

SpecStore == InitStore /\ [][NextStore]_vars

----------------------------------------------------------------------------
(* Properties of the application.                                           *)

Decoded(i) == uploads[i].messages # Null

C22_OnlySortMutates ==
    [][\/ \A i \in 1..Len(uploads) :
             Decoded(i) => uploads'[i].messages = uploads[i].messages
       \/ /\ view.tables # {}
          /\ UNCHANGED <<state, storage, view, calls>>]_vars

(* C23.  When two uploads overlap, once both have completed, in either     *)
(* order, currentData is the result of the file submitted last: the result  *)
(* of the earlier upload is discarded.                                      *)
C23_LastSubmittedWins ==
    \A i, j \in 1..Len(uploads) :
        (/\ i \in uploads[j].during
         /\ uploads[i].pc = "done" /\ uploads[j].pc = "done"
         /\ Decoded(i) /\ Decoded(j)
         /\ state.currentData # Null)
        => state.currentData.raw = j

(* C23 as the code has it: the upload that completes last wins; each parse  *)
(* that succeeds stores its own result, whatever was submitted after it.    *)
C23_LastCompletedWins ==
    [][\A i \in 1..MaxUploads :
          (handleFileSettled(i) /\ ReadError(uploads[i].file) = Null)
          => (state'.currentData # Null /\ state'.currentData.raw = i)]_vars

(* C24.  Every call of dispatch returns, and when it has notified Tabs it   *)
(* has also notified the subscriber registered after Tabs (App): the        *)
(* nested dispatches that the subscribers make are finitely many.           *)
C24_DispatchReturns ==
    /\ calls.returned
    /\ "Tabs" \in calls.notified => "App" \in calls.notified

(* C24 without parsed data: a dispatch that leaves currentData null         *)
(* returns, with every subscriber notified if any was.                      *)
C24_ReturnsWithoutData ==
    state.currentData = Null
    => /\ calls.returned
       /\ calls.notified \in {{}, Range(Subscribers)}

(* C24 with parsed data: a dispatch of a known type made while currentData  *)
(* is set does not return, and App is not notified by it.                   *)
C24_RaisesWithData ==
    (state.currentData # Null /\ calls.notified # {})
    => (~calls.returned /\ "App" \notin calls.notified)

(* C25.  currentData is non-null only if uploadedFiles is non-empty and    *)
(* its last entry is the file currentData was parsed from, so that the      *)
(* file-info bar names the file whose data is displayed.                    *)
C25_LastUploadedIsDisplayed ==
    state.currentData # Null
    => LET uploadedFiles == state.uploadedFiles
       IN  /\ Len(uploadedFiles) > 0
           /\ uploadedFiles[Len(uploadedFiles)].file =
                  uploads[state.currentData.raw].file

(* C25 for what is displayed: currentData is always the result of a file    *)
(* that handleFile has read and parsed.                                     *)
C25_DisplayedWasUploaded ==
    state.currentData # Null
    => /\ state.currentData.raw \in 1..Len(uploads)
       /\ uploads[state.currentData.raw].pc = "done"
       /\ Decoded(state.currentData.raw)

(* The invocations of handleFile that are at their awaits.                  *)
InFlight == {i \in 1..Len(uploads) : uploads[i].pc = "reading"}

(* isLoading is not left true once every upload in flight has completed.   *)
NotLoadingWhenSettled == InFlight = {} => ~state.isLoading

(* C26.  After handleFile has accepted a file and has dispatched            *)
(* SET_LOADING(true), isLoading eventually becomes false, whether reading   *)
(* and parsing succeed (SET_DATA) or fail (SET_ERROR); and isLoading is     *)
(* never left true once every upload in flight has completed.               *)
C26_LoadingEnds ==
    /\ state.isLoading ~> ~state.isLoading
    /\ []NotLoadingWhenSettled

(* An upload has failed to parse, which has ended the loading it started.   *)
C26_Witness ==
    /\ InFlight = {}
    /\ \E i \in 1..Len(uploads) : uploads[i].pc = "done" /\ ~Decoded(i)
    /\ state.error # Null
    /\ ~state.isLoading

(* C27.  Starting an upload clears the error of a previous failed          *)
(* attempt: whenever isLoading is true, error is null.                      *)
C27_NoErrorWhileLoading == state.isLoading => state.error = Null

(* C27 as the code has it: handleFile of a file that passes validation      *)
(* leaves the error as it was.                                              *)
C27_UploadKeepsError ==
    [][\A file \in Files :
          (handleFile(file) /\ validateFile(file).valid)
          => state'.error = state.error]_vars

(* The language a page load would take from localStorage.                   *)
PersistedLanguage(item) ==
    loadFromStorage(getInitialState, item).selectedLanguage

(* C28.  RESET ('Upload another file') restores currentData, isLoading,    *)
(* error, activeTab, comparisonData and uploadedFiles to their initial      *)
(* values and leaves selectedLanguage, and the language persisted in        *)
(* localStorage, unchanged.                                                 *)
C28_ResetKeepsLanguage ==
    [][resetApp =>
          /\ \A field \in DOMAIN getInitialState \ {"selectedLanguage"} :
                state'[field] = getInitialState[field]
          /\ state'.selectedLanguage = state.selectedLanguage
          /\ PersistedLanguage(storage') = PersistedLanguage(storage)]_vars

(* C28 as the code has it: RESET restores every field of the state to its   *)
(* initial value, selectedLanguage included ('en'), and persists that.      *)
C28_ResetRestoresAll ==
    [][resetApp =>
          /\ state' = getInitialState
          /\ storage' = [selectedLanguage |-> "en"]]_vars

(* A call of dispatch with an action of a type that is not one of the ten. *)
UnknownDispatch ==
    \E action \in StoreActions :
        /\ action.type \notin ActionTypes
        /\ Commit(dispatch(Current, action, 1))
        /\ UNCHANGED <<uploads, parserVars>>

(* C30.  Dispatching an action whose type is not one of the ten known       *)
(* types leaves every field of the state unchanged and notifies no          *)
(* subscriber.                                                              *)
C30_UnknownActionIgnored ==
    [][UnknownDispatch =>
          /\ state' = state
          /\ storage' = storage
          /\ view' = view
          /\ calls'.notified = {}
          /\ calls'.returned]_vars

(* An unknown action has been dispatched after others had changed the       *)
(* state and had notified the subscribers: the state is as they left it     *)
(* and the call has notified nobody.                                        *)
C30_Witness ==
    /\ state # getInitialState
    /\ state.uploadedFiles # <<>>
    /\ calls.notified = {}
    /\ calls.returned
    /\ view.language = state.selectedLanguage

====
